---- MODULE Spec2Model ----
(***************************************************************************)
(* Model of the POS import orchestrator (doctype POS Import), its          *)
(* connector lookups and the canonical report model.                       *)
(*                                                                         *)
(* Money is held in hundredths (integers); a tax rate is a whole           *)
(* percentage.  A report number is a string of digits, held as the         *)
(* sequence of its digits.  Handlers run one at a time and to completion   *)
(* (the site is single-threaded per request): pc names the handler that    *)
(* is running, and no other handler starts until it is "idle" again.       *)
(***************************************************************************)
EXTENDS Integers, Sequences, FiniteSets, TLC

VARIABLES
    invoices,       \* the Sales Invoice table: a set of document records
    batch,          \* the POS Import documents: batch id -> record
    pc,             \* "idle" | "on_submit" | "reprocess_failed"
    cur,            \* the batch whose handler is running
    idx,            \* loop position of the running handler (1-based)
    log_messages,   \* the running handler's local log_messages
    success_count,  \* on_submit's local success_count
    error_count,    \* on_submit's local error_count
    response,       \* how the last handler call ended: "ok" | "throw"
    last,           \* what the last per-report attempt did (observation)
    given,          \* the argument a function is called with on its own
    returned        \* what that call returned

vars == <<invoices, batch, pc, cur, idx, log_messages,
          success_count, error_count, response, last, given, returned>>

\* the orchestrator's variables, and those of a function called on its own
site_vars == <<invoices, batch, pc, cur, idx, log_messages,
               success_count, error_count, response, last>>
call_vars == <<given, returned>>

\* no call is under way
NoCall == [kind |-> ""]

----------------------------------------------------------------------------
(* Bounds of the model *)

\* a batch is reprocessed only while its import log holds fewer entries
MaxLog == 3

\* the import batches (POS Import documents) of the site
Batches == {"b1", "b2"}

----------------------------------------------------------------------------
(* Canonical report model: parsers/base.py *)

POSLine(code, net, rate, tax, gross) ==
    [source_code |-> code, net_amount |-> net, tax_rate |-> rate,
     tax_amount |-> tax, gross_amount |-> gross]

POSPayment(code, amount) == [source_code |-> code, amount |-> amount]

POSReport(number, date, lines, payments, vat) ==
    [report_number |-> number, report_date |-> date, lines |-> lines,
     payments |-> payments, vat_by_rate |-> vat]

RECURSIVE SumSeq(_, _)
SumSeq(s, i) == IF i = 0 THEN 0 ELSE s[i] + SumSeq(s, i - 1)

RECURSIVE SumFun(_, _)
SumFun(f, D) ==
    IF D = {} THEN 0
    ELSE LET k == CHOOSE x \in D : TRUE IN f[k] + SumFun(f, D \ {k})

\* `if self.vat_by_rate`: a non-empty mapping
HasVat(r) == DOMAIN r.vat_by_rate # {}

total_net(r) ==
    SumSeq([i \in 1..Len(r.lines) |-> r.lines[i].net_amount], Len(r.lines))

total_tax(r) ==
    IF HasVat(r) THEN SumFun(r.vat_by_rate, DOMAIN r.vat_by_rate)
    ELSE SumSeq([i \in 1..Len(r.lines) |-> r.lines[i].tax_amount], Len(r.lines))

\* a gross total that is always that of the lines
total_gross_of_lines(r) ==
    SumSeq([i \in 1..Len(r.lines) |-> r.lines[i].gross_amount], Len(r.lines))

total_gross(r) ==
    IF HasVat(r) THEN total_net(r) + total_tax(r)
    ELSE SumSeq([i \in 1..Len(r.lines) |-> r.lines[i].gross_amount], Len(r.lines))

total_payments(r) ==
    SumSeq([i \in 1..Len(r.payments) |-> r.payments[i].amount], Len(r.payments))

----------------------------------------------------------------------------
(* The POS Connector documents the site holds (read-only configuration).  *)
(* Two connectors of company c1 (one per export format, one submitting    *)
(* and one leaving drafts) and one of company c2 that has no tax account.   *)

ConnectorNames == {"K-TAB", "K-PDF", "K-TAB2"}

Connector(k) ==
    CASE k = "K-TAB" ->
           [company |-> "c1", parser_class |-> "RestomaxParser",
            create_draft_invoices |-> FALSE,
            default_tax_account |-> "4451", default_unmapped_item |-> "",
            item_mapping |-> <<[source_code |-> "A", item |-> "ITEM-A"]>>,
            payment_mapping |->
                <<[source_code |-> "cash", mode_of_payment |-> "Cash"]>>]
      [] k = "K-PDF" ->
           [company |-> "c1", parser_class |-> "RestomaxPDFParser",
            create_draft_invoices |-> TRUE,
            default_tax_account |-> "4451", default_unmapped_item |-> "MISC",
            item_mapping |-> <<[source_code |-> "TVA-A", item |-> "ITEM-A"],
                               [source_code |-> "TVA-A", item |-> "ITEM-A2"]>>,
            payment_mapping |->
                <<[source_code |-> "eft", mode_of_payment |-> "Card"],
                  [source_code |-> "cash", mode_of_payment |-> "Cash"],
                  [source_code |-> "eft", mode_of_payment |-> "Cheque"]>>]
      [] OTHER ->
           [company |-> "c2", parser_class |-> "RestomaxParser",
            create_draft_invoices |-> FALSE,
            default_tax_account |-> "", default_unmapped_item |-> "MISC",
            item_mapping |-> <<[source_code |-> "A", item |-> "ITEM-A"]>>,
            payment_mapping |->
                <<[source_code |-> "cash", mode_of_payment |-> "Cash"],
                  [source_code |-> "voucher", mode_of_payment |-> "Voucher"]>>]

\* the connector of each batch, in the sites the model explores
Sites ==
    {[b1 |-> "K-TAB", b2 |-> "K-PDF"],
     [b1 |-> "K-PDF", b2 |-> "K-PDF"],
     [b1 |-> "K-TAB", b2 |-> "K-TAB2"]}

\* the scan that keeps the last entry that matches
RECURSIVE FirstMatch_last(_, _, _)
FirstMatch_last(mapping, code, i) ==
    IF i > Len(mapping) THEN 0
    ELSE LET later == FirstMatch_last(mapping, code, i + 1)
         IN IF later # 0 THEN later
            ELSE IF mapping[i].source_code = code THEN i ELSE 0

\* pos_connector.py: first mapping whose source_code matches, else none (0)
RECURSIVE FirstMatch(_, _, _)
FirstMatch(mapping, code, i) ==
    IF i > Len(mapping) THEN 0
    ELSE IF mapping[i].source_code = code THEN i
    ELSE FirstMatch(mapping, code, i + 1)

get_item_mapping(c, code) == FirstMatch(c.item_mapping, code, 1)

get_mode_of_payment_for_source_code(c, code) ==
    LET i == FirstMatch(c.payment_mapping, code, 1)
    IN IF i = 0 THEN "" ELSE c.payment_mapping[i].mode_of_payment

\* pos_import.py 399-402: the mapped item, else the default unmapped item
item_code_for(c, code) ==
    LET i == get_item_mapping(c, code)
    IN IF i # 0 THEN c.item_mapping[i].item ELSE c.default_unmapped_item

----------------------------------------------------------------------------
(* The uploaded files, each given by what its parser makes of it.  The    *)
(* tabular parser yields lines without tax and the VAT in vat_by_rate; the *)
(* PDF parser yields the tax on the lines, no vat_by_rate, and one report  *)
(* per header occurrence, so a number may repeat.                          *)

N1 == <<1>>
N2 == <<2>>
D1 == <<2025, 6, 1>>

TabOk(n) ==
    POSReport(n, D1, <<POSLine("A", 1000, 10, 0, 1000)>>,
              <<POSPayment("cash", 1200)>>, (10 :> 200))
TabUnmapped(n) ==
    POSReport(n, D1, <<POSLine("X", 500, 0, 0, 500)>>,
              <<POSPayment("voucher", 500)>>, << >>)
TabBadPay(n) ==
    POSReport(n, D1, <<POSLine("A", 1000, 10, 0, 1000)>>,
              <<POSPayment("voucher", 1200)>>, (10 :> 200))
TabZero(n) ==
    POSReport(n, D1, << >>, <<POSPayment("cash", 300)>>, << >>)
PdfOk(n) ==
    POSReport(n, D1, <<POSLine("TVA-A", 2000, 5, 100, 2100)>>,
              <<POSPayment("eft", 2100)>>, << >>)
PdfHighTax(n) ==
    POSReport(n, D1, <<POSLine("TVA-B", 1000, 20, 200, 1200)>>,
              <<POSPayment("eft", 1200)>>, << >>)
PdfTaxFail(n) ==
    POSReport(n, D1, <<POSLine("TVA-A", 1000, 10, 300, 1300)>>,
              <<POSPayment("cash", 1300)>>, << >>)
PdfZero(n) ==
    POSReport(n, D1, << >>, <<POSPayment("cash", 300)>>, << >>)

FileNames == {"BAD", "T-EMPTY", "T-1", "T-2", "P-1", "P-2", "P-3"}

\* the format a file is in ("" for bytes no parser reads)
FileFormat(f) ==
    CASE f \in {"T-EMPTY", "T-1", "T-2"} -> "RestomaxParser"
      [] f \in {"P-1", "P-2", "P-3"} -> "RestomaxPDFParser"
      [] OTHER -> ""

\* the files a user gives a batch of connector c: exports of its format, or
\* bytes its parser does not accept
FilesFor(c) == {f \in FileNames : FileFormat(f) \in {c.parser_class, ""}}

\* a validate_file that accepts every file
validate_file_accepts_all(c, f) == TRUE

\* parser.validate_file of the connector's parser on the file
validate_file(c, f) == FileFormat(f) = c.parser_class

\* parser.parse: the reports of the file, sorted by (date, number)
parse(f) ==
    CASE f = "T-1" -> <<TabOk(N1), TabZero(N2)>>
      [] f = "T-2" -> <<TabBadPay(N1), TabUnmapped(N2)>>
      [] f = "P-1" -> <<PdfOk(N1), PdfHighTax(N2)>>
      [] f = "P-2" -> <<PdfZero(N1), PdfTaxFail(N1)>>
      [] f = "P-3" -> <<PdfOk(N1), PdfZero(N1)>>
      [] OTHER -> << >>

----------------------------------------------------------------------------
(* Failure messages: what str(e) names *)

Msg(kind, code, pairs) == [kind |-> kind, code |-> code, pairs |-> pairs]
NoMsg == Msg("", "", {})
NoRevenueMsg == Msg("No revenue lines found", "", {})
CheckMsgKind == "Invoice amounts do not match Z-ticket"

Abs(x) == IF x < 0 THEN -x ELSE x

----------------------------------------------------------------------------
(* Binary floating point: pos_import.py 235-237 and 277-319 compare          *)
(* abs(float(x) - float(y)) with a limit.  The amounts are decimal; their    *)
(* doubles are not exact, so for two amounts that are exactly the limit      *)
(* apart the computed difference may round above the limit.  Away from the   *)
(* limit (by 0.0001 or more) the comparison agrees with the exact one.  The  *)
(* tables give, by the smaller amount in hundredths, what IEEE-754 double    *)
(* arithmetic computes at the limit.                                         *)

\* amounts a below 23.00 with float(a + 1.00) - float(a) > 1.0
RoundsAboveOne ==
    {
     114, 116, 118, 120, 122, 124, 139, 141, 143, 145, 147, 149, 164, 166,
     168, 170, 172, 174, 189, 191, 193, 195, 197, 199, 303, 307, 311, 315,
     319, 323, 328, 332, 336, 340, 344, 348, 353, 357, 361, 365, 369, 373,
     378, 382, 386, 390, 394, 398, 705, 706, 713, 714, 721, 722, 730, 731,
     738, 739, 746, 747, 755, 756, 763, 764, 771, 772, 780, 781, 788, 789,
     796, 797, 1501, 1503, 1510, 1512, 1517, 1519, 1526, 1528, 1535, 1537,
     1542, 1544, 1551, 1553, 1560, 1562, 1567, 1569, 1576, 1578, 1585,
     1587, 1592, 1594}

\* amounts a below 4.00 with float(a + 0.01) - float(a) <= 0.01
CentNotAbove ==
    {
     0, 1, 2, 5, 7, 8, 10, 11, 14, 17, 20, 23, 28, 34, 40, 46, 56, 68, 81,
     93, 112, 137, 162, 187, 200, 202, 204, 206, 208, 210, 212, 214, 216,
     218, 220, 222, 224, 225, 227, 229, 231, 233, 235, 237, 239, 241, 243,
     245, 247, 249, 250, 252, 254, 256, 258, 260, 262, 264, 266, 268, 270,
     272, 274, 275, 277, 279, 281, 283, 285, 287, 289, 291, 293, 295, 297,
     299, 300, 302, 304, 306, 308, 310, 312, 314, 316, 318, 320, 322, 324,
     325, 327, 329, 331, 333, 335, 337, 339, 341, 343, 345, 347, 349, 350,
     352, 354, 356, 358, 360, 362, 364, 366, 368, 370, 372, 374, 375, 377,
     379, 381, 383, 385, 387, 389, 391, 393, 395, 397, 399}

\* abs(float(x) - float(y)) > limit, for amounts x and y in 1/10000 and a
\* limit in hundredths that is 1.00 or 0.01
FloatDiffExceeds(x, y, limit) ==
    LET d == Abs(x - y)
        lo == (IF x < y THEN x ELSE y) \div 100
    IN IF d # limit * 100 THEN d > limit * 100
       ELSE IF limit = 100 THEN lo \in RoundsAboveOne
       ELSE lo \notin CentNotAbove

----------------------------------------------------------------------------
(* Reconciliation: pos_import.py 223-332 *)

\* the limits of _validate_tax_amounts (237, 248), in hundredths
TaxTolerance == 100
WarnTolerance == 1

\* |net * rate / 100 - tax| in 1/10000 of the currency unit
TaxDiff(line) == Abs(line.net_amount * line.tax_rate - line.tax_amount * 100)

\* diff > limit as line 235 computes diff
TaxDiffExceeds(line, limit) ==
    FloatDiffExceeds(line.net_amount * line.tax_rate, line.tax_amount * 100, limit)

\* index of the first line whose discrepancy exceeds 1.00, else 0
RECURSIVE FirstTaxFailure(_, _)
FirstTaxFailure(lines, i) ==
    IF i > Len(lines) THEN 0
    ELSE IF lines[i].tax_rate > 0 /\ TaxDiffExceeds(lines[i], TaxTolerance) THEN i
    ELSE FirstTaxFailure(lines, i + 1)

\* _validate_tax_amounts: 0 when it returns, else the line it throws for
validate_tax_amounts(r) ==
    IF HasVat(r) THEN 0 ELSE FirstTaxFailure(r.lines, 1)

\* the lines _validate_tax_amounts shows a warning for (248-260): those it
\* gets to, before the line it throws for
tax_warnings(r) ==
    IF HasVat(r) THEN {}
    ELSE LET stop == FirstTaxFailure(r.lines, 1)
             upto == IF stop = 0 THEN Len(r.lines) ELSE stop - 1
         IN {i \in 1..upto :
                /\ r.lines[i].tax_rate > 0
                /\ TaxDiffExceeds(r.lines[i], WarnTolerance)}

\* the totals the accounting system computes for the rows the core appends
\* (read back at pos_import.py 283-286)
DocTotals(r, c) ==
    LET tax == IF c.default_tax_account # "" /\ HasVat(r)
               THEN SumFun(r.vat_by_rate, DOMAIN r.vat_by_rate) ELSE 0
    IN [net_total |-> total_net(r),
        total_taxes_and_charges |-> tax,
        grand_total |-> total_net(r) + tax,
        paid |-> total_payments(r)]

\* _validate_invoice_against_z_ticket: the pairs that differ by more than 1.00
Tolerance == 100

validate_invoice_against_z_ticket(si, r) ==
    {p \in {"net", "tax", "gross", "payments"} :
        \/ p = "net" /\ FloatDiffExceeds(total_net(r) * 100, si.net_total * 100, Tolerance)
        \/ p = "tax" /\ FloatDiffExceeds(total_tax(r) * 100,
                                         si.total_taxes_and_charges * 100, Tolerance)
        \/ p = "gross" /\ FloatDiffExceeds(total_gross(r) * 100,
                                           si.grand_total * 100, Tolerance)
        \/ p = "payments" /\ FloatDiffExceeds(total_payments(r) * 100,
                                              si.paid * 100, Tolerance)}

----------------------------------------------------------------------------
(* The document store *)

po_no(number) == <<"Z-", number>>

DocNames(st) == {d.name : d \in st}

\* the lookup with the filter docstatus = 1 in place of docstatus != 2
ExistingInvoices_submitted_only(st, number, company) ==
    {d \in st : d.po_no = po_no(number) /\ d.company = company /\ d.docstatus = 1}

\* frappe.db.get_value("Sales Invoice", {po_no, company, docstatus != 2}):
\* the matching documents (the call returns one of them)
ExistingInvoices(st, number, company) ==
    {d \in st : d.po_no = po_no(number) /\ d.company = company /\ d.docstatus # 2}

\* every Sales Invoice name a report row links to
LinkedNames(bt) ==
    UNION {{bt[b].imported_reports[i].sales_invoice :
               i \in 1..Len(bt[b].imported_reports)} : b \in DOMAIN bt} \ {0}

\* the naming series: a name no document holds and no row still refers to
\* (the least such, so that the model stays finite)
FreshName(used) == CHOOSE n \in 1..(Cardinality(used) + 1) : n \notin used

----------------------------------------------------------------------------
(* _create_sales_invoice: pos_import.py 334-467 *)

\* index of the first line that resolves to no item, else 0 (396-408)
RECURSIVE FirstUnmappedLine(_, _, _)
FirstUnmappedLine(c, lines, i) ==
    IF i > Len(lines) THEN 0
    ELSE IF item_code_for(c, lines[i].source_code) = "" THEN i
    ELSE FirstUnmappedLine(c, lines, i + 1)

\* index of the first payment that resolves to no method, else 0 (440-448)
RECURSIVE FirstUnmappedPayment(_, _, _)
FirstUnmappedPayment(c, payments, i) ==
    IF i > Len(payments) THEN 0
    ELSE IF get_mode_of_payment_for_source_code(c, payments[i].source_code) = ""
         THEN i
    ELSE FirstUnmappedPayment(c, payments, i + 1)

\* What one call does: the store afterwards, whether it raised and with what
\* message, the document it returned (0 when it raised), and what it did to
\* the store.  insert_ok is whether the store accepts the insert.
Outcome(st, raised, message, name, existing, deleted, inserted, submitted) ==
    [invoices |-> st, raised |-> raised, message |-> message, name |-> name,
     existing |-> existing, deleted |-> deleted, inserted |-> inserted,
     submitted |-> submitted]

NoOutcome(st) == Outcome(st, FALSE, NoMsg, 0, "", 0, 0, FALSE)

\* the document the core builds (363-456), as the store holds it once inserted
NewInvoice(r, c, name) ==
    LET totals == DocTotals(r, c)
    IN [name |-> name, po_no |-> po_no(r.report_number),
        company |-> c.company, docstatus |-> 0,
        net_total |-> totals.net_total,
        total_taxes_and_charges |-> totals.total_taxes_and_charges,
        grand_total |-> totals.grand_total, paid |-> totals.paid]

\* the build that finalizes the document before it checks it against the report
build_and_insert_submits_first(r, c, st, used, found, deleted, insert_ok) ==
    LET li == FirstUnmappedLine(c, r.lines, 1)
        pi == FirstUnmappedPayment(c, r.payments, 1)
        name == FreshName(used)
        si == [NewInvoice(r, c, name) EXCEPT
                  !.docstatus = IF c.create_draft_invoices THEN 0 ELSE 1]
        errors == validate_invoice_against_z_ticket(si, r)
    IN  IF li # 0 \/ pi # 0 \/ ~insert_ok
        THEN Outcome(st, TRUE, Msg("insert failed", "", {}),
                     0, found, deleted, 0, FALSE)
        ELSE IF errors # {}
        THEN Outcome(st \cup {si}, TRUE,
                     Msg("Invoice amounts do not match Z-ticket", "", errors),
                     0, found, deleted, name, si.docstatus = 1)
        ELSE Outcome(st \cup {si}, FALSE, NoMsg, name, found, deleted, name,
                     si.docstatus = 1)

\* the build that takes the inserted document out again when the check fails
build_and_insert_drops_draft(r, c, st, used, found, deleted, insert_ok) ==
    LET li == FirstUnmappedLine(c, r.lines, 1)
        pi == FirstUnmappedPayment(c, r.payments, 1)
        name == FreshName(used)
        si == NewInvoice(r, c, name)
        errors == validate_invoice_against_z_ticket(si, r)
    IN  IF li # 0 \/ pi # 0 \/ ~insert_ok
        THEN Outcome(st, TRUE, Msg("insert failed", "", {}),
                     0, found, deleted, 0, FALSE)
        ELSE IF errors # {}
        THEN Outcome(st, TRUE,
                     Msg("Invoice amounts do not match Z-ticket", "", errors),
                     0, found, deleted, 0, FALSE)
        ELSE IF ~c.create_draft_invoices
        THEN Outcome(st \cup {[si EXCEPT !.docstatus = 1]}, FALSE, NoMsg,
                     name, found, deleted, name, TRUE)
        ELSE Outcome(st \cup {si}, FALSE, NoMsg, name, found, deleted, name, FALSE)

\* the build that resolves the payments before the lines
build_and_insert_payments_first(r, c, st, used, found, deleted, insert_ok) ==
    LET li == FirstUnmappedLine(c, r.lines, 1)
        pi == FirstUnmappedPayment(c, r.payments, 1)
        name == FreshName(used)
        si == NewInvoice(r, c, name)
        errors == validate_invoice_against_z_ticket(si, r)
    IN  IF pi # 0
        THEN Outcome(st, TRUE,
                     Msg("No payment mapping found", r.payments[pi].source_code, {}),
                     0, found, deleted, 0, FALSE)
        ELSE IF li # 0
        THEN Outcome(st, TRUE, Msg("No item mapping found", r.lines[li].source_code, {}),
                     0, found, deleted, 0, FALSE)
        ELSE IF ~insert_ok
        THEN Outcome(st, TRUE, Msg("insert failed", "", {}),
                     0, found, deleted, 0, FALSE)
        ELSE IF errors # {}
        THEN Outcome(st \cup {si}, TRUE,
                     Msg("Invoice amounts do not match Z-ticket", "", errors),
                     0, found, deleted, name, FALSE)
        ELSE IF ~c.create_draft_invoices
        THEN Outcome(st \cup {[si EXCEPT !.docstatus = 1]}, FALSE, NoMsg,
                     name, found, deleted, name, TRUE)
        ELSE Outcome(st \cup {si}, FALSE, NoMsg, name, found, deleted, name, FALSE)

\* 363-467: build, insert, check against the report, submit
build_and_insert(r, c, st, used, found, deleted, insert_ok) ==
    LET li == FirstUnmappedLine(c, r.lines, 1)
        pi == FirstUnmappedPayment(c, r.payments, 1)
        name == FreshName(used)
        si == NewInvoice(r, c, name)
        errors == validate_invoice_against_z_ticket(si, r)
    IN  IF li # 0
        THEN Outcome(st, TRUE, Msg("No item mapping found", r.lines[li].source_code, {}),
                     0, found, deleted, 0, FALSE)
        ELSE IF pi # 0
        THEN Outcome(st, TRUE,
                     Msg("No payment mapping found", r.payments[pi].source_code, {}),
                     0, found, deleted, 0, FALSE)
        ELSE IF ~insert_ok
        THEN Outcome(st, TRUE, Msg("insert failed", "", {}),
                     0, found, deleted, 0, FALSE)
        ELSE IF errors # {}
        THEN Outcome(st \cup {si}, TRUE,
                     Msg("Invoice amounts do not match Z-ticket", "", errors),
                     0, found, deleted, name, FALSE)
        ELSE IF ~c.create_draft_invoices
        THEN Outcome(st \cup {[si EXCEPT !.docstatus = 1]}, FALSE, NoMsg,
                     name, found, deleted, name, TRUE)
        ELSE Outcome(st \cup {si}, FALSE, NoMsg, name, found, deleted, name, FALSE)

\* the lookup that returns whatever it finds, draft or finalized
create_sales_invoice_keeps_draft(r, c, st, links, insert_ok) ==
    LET found == ExistingInvoices(st, r.report_number, c.company)
    IN  IF found = {}
        THEN build_and_insert(r, c, st, DocNames(st) \cup links, "none", 0, insert_ok)
        ELSE LET existing == CHOOSE d \in found : TRUE
             IN Outcome(st, FALSE, NoMsg, existing.name,
                        IF existing.docstatus = 1 THEN "submitted" ELSE "draft",
                        0, 0, FALSE)

\* 336-361: the idempotency lookup, then the build
create_sales_invoice(r, c, st, links, insert_ok) ==
    LET found == ExistingInvoices(st, r.report_number, c.company)
        used == DocNames(st) \cup links
    IN  IF found = {}
        THEN build_and_insert(r, c, st, used, "none", 0, insert_ok)
        ELSE LET existing == CHOOSE d \in found : TRUE
             IN IF existing.docstatus = 1
                THEN Outcome(st, FALSE, NoMsg, existing.name,
                             "submitted", 0, 0, FALSE)
                ELSE build_and_insert(r, c, st \ {existing}, used,
                                      "draft", existing.name, insert_ok)

\* the try block without the intra-report tax check
attempt_without_tax_check(r, c, st, links, insert_ok) ==
    create_sales_invoice(r, c, st, links, insert_ok)

\* the try block of on_submit (50-51) and of reprocess_failed (118-119)
attempt(r, c, st, links, insert_ok) ==
    LET ti == validate_tax_amounts(r)
    IN  IF ti # 0
        THEN Outcome(st, TRUE, Msg("Tax discrepancy", "", {}),
                     0, "unchecked", 0, 0, FALSE)
        ELSE create_sales_invoice(r, c, st, links, insert_ok)

----------------------------------------------------------------------------
(* The POS Import document and its report rows *)

Row(r) ==
    [report_number |-> r.report_number, report_date |-> r.report_date,
     total_amount |-> total_gross(r), status |-> "Pending",
     error_message |-> NoMsg, sales_invoice |-> 0]

NewBatch(k) ==
    [connector |-> k, import_file |-> "", preview_html |-> FALSE,
     docstatus |-> 0, import_status |-> "", import_log |-> << >>,
     imported_reports |-> << >>]

NoAttempt ==
    [handler |-> "", batch |-> "", report_number |-> << >>, lines |-> 0,
     row |-> 0, skipped |-> FALSE, raised |-> FALSE, existing |-> "",
     deleted |-> 0, inserted |-> 0, submitted |-> FALSE, name |-> 0]

Observe(handler, b, r, ri, skipped, o) ==
    [handler |-> handler, batch |-> b, report_number |-> r.report_number,
     lines |-> Len(r.lines), row |-> ri, skipped |-> skipped,
     raised |-> o.raised, existing |-> o.existing, deleted |-> o.deleted,
     inserted |-> o.inserted, submitted |-> o.submitted, name |-> o.name]

\* _parse_file (181-190): TRUE when it returns the reports, FALSE when it throws
parse_file_ok(bt) == validate_file(Connector(bt.connector), bt.import_file)

parse_file(bt) == parse(bt.import_file)

\* parse_and_preview (161-179): the rows are cleared and made anew
parse_and_preview(bt) ==
    LET reports == parse_file(bt)
    IN [bt EXCEPT !.imported_reports = [i \in 1..Len(reports) |-> Row(reports[i])],
                  !.preview_html = TRUE]

\* validate (23-27)
validate(bt) ==
    LET b1 == IF bt.import_status = ""
              THEN [bt EXCEPT !.import_status = "Pending"] ELSE bt
    IN IF b1.import_file # "" /\ ~b1.preview_html
       THEN parse_and_preview(b1) ELSE b1

validate_raises(bt) ==
    bt.import_file # "" /\ ~bt.preview_html /\ ~parse_file_ok(bt)

\* _find_or_create_report_row (207-221): the rows afterwards
RECURSIVE FirstRow(_, _, _)
FirstRow(rows, number, i) ==
    IF i > Len(rows) THEN 0
    ELSE IF rows[i].report_number = number THEN i
    ELSE FirstRow(rows, number, i + 1)

\* a lookup that starts the row list anew
find_or_create_report_row_fresh(rows, r) == <<Row(r)>>

find_or_create_report_row(rows, r) ==
    IF FirstRow(rows, r.report_number, 1) # 0 THEN rows ELSE Append(rows, Row(r))

\* 113: the first parsed report with the row's number, else 0
RECURSIVE FirstReport(_, _, _)
FirstReport(reports, number, i) ==
    IF i > Len(reports) THEN 0
    ELSE IF reports[i].report_number = number THEN i
    ELSE FirstReport(reports, number, i + 1)

LogEntry(number, kind, name, message) ==
    [report_number |-> number, kind |-> kind, sales_invoice |-> name,
     message |-> message]

\* the status rule without the mixed case
submit_status_no_partial(successes, errors) ==
    IF successes = 0 THEN "Error" ELSE "Success"

\* on_submit 73-82
submit_status(successes, errors) ==
    IF successes + errors = 0 THEN "Error"
    ELSE IF errors = 0 THEN "Success"
    ELSE IF successes = 0 THEN "Error"
    ELSE "Partial Success"

CountRows(rows, statuses) ==
    Cardinality({i \in 1..Len(rows) : rows[i].status \in statuses})

\* reprocess_failed 143-154
reprocess_status(rows) ==
    IF Len(rows) = 0 THEN "Error"
    ELSE IF CountRows(rows, {"Error", "Pending"}) = 0 THEN "Success"
    ELSE IF CountRows(rows, {"Created"}) = 0 THEN "Error"
    ELSE "Partial Success"

----------------------------------------------------------------------------
(* Actions *)

Init ==
    /\ invoices = {}
    /\ \E site \in Sites :
          batch = [b \in Batches |-> NewBatch(site[b])]
    /\ pc = "idle"
    /\ cur = ""
    /\ idx = 0
    /\ log_messages = << >>
    /\ success_count = 0
    /\ error_count = 0
    /\ response = "ok"
    /\ last = NoAttempt
    /\ given = NoCall
    /\ returned = NoCall

Frame == UNCHANGED <<cur, idx, log_messages, success_count, error_count, last>>

\* The user attaches a file to a draft batch and saves it: validate (23-27)
\* runs; a throw leaves nothing saved.
save_draft(b, f) ==
    /\ UNCHANGED call_vars
    /\ pc = "idle"
    /\ batch[b].docstatus = 0
    /\ f \in FilesFor(Connector(batch[b].connector))
    /\ LET edited == [batch[b] EXCEPT !.import_file = f]
       IN IF validate_raises(edited)
          THEN /\ response' = "throw"
               /\ UNCHANGED batch
          ELSE /\ response' = "ok"
               /\ batch' = [batch EXCEPT ![b] = validate(edited)]
    /\ UNCHANGED <<invoices, pc>>
    /\ Frame

\* preview_import (94-99) on a draft batch
preview_import(b) ==
    /\ UNCHANGED call_vars
    /\ pc = "idle"
    /\ batch[b].docstatus = 0
    /\ batch[b].import_file # ""
    /\ IF ~parse_file_ok(batch[b])
       THEN /\ response' = "throw"
            /\ UNCHANGED batch
       ELSE /\ response' = "ok"
            /\ batch' = [batch EXCEPT ![b] = validate(parse_and_preview(batch[b]))]
    /\ UNCHANGED <<invoices, pc>>
    /\ Frame

\* Submitting a draft batch: validate, then on_submit up to its loop (29-36).
\* A throw rolls the submission back.
on_submit(b) ==
    /\ UNCHANGED call_vars
    /\ pc = "idle"
    /\ batch[b].docstatus = 0
    /\ batch[b].import_file # ""
    /\ IF ~parse_file_ok(batch[b])
       THEN /\ response' = "throw"
            /\ UNCHANGED <<batch, pc, cur, idx>>
       ELSE /\ response' = "ok"
            /\ batch' = [batch EXCEPT ![b] = [validate(batch[b]) EXCEPT !.docstatus = 1]]
            /\ pc' = "on_submit"
            /\ cur' = b
            /\ idx' = 1
    /\ UNCHANGED <<invoices, log_messages, success_count, error_count, last>>

\* One pass of on_submit's loop (38-68)
on_submit_report ==
    /\ UNCHANGED call_vars
    /\ pc = "on_submit"
    /\ idx <= Len(parse_file(batch[cur]))
    /\ \E insert_ok \in BOOLEAN :
       \E report \in {parse_file(batch[cur])[idx]} :
       \E rows \in {find_or_create_report_row(batch[cur].imported_reports, report)} :
       \E ri \in {FirstRow(rows, report.report_number, 1)} :
       \E o \in {attempt(report, Connector(batch[cur].connector), invoices,
                         LinkedNames([batch EXCEPT ![cur].imported_reports = rows]),
                         insert_ok)} :
            IF Len(report.lines) = 0
            THEN /\ batch' = [batch EXCEPT ![cur].imported_reports =
                        [rows EXCEPT ![ri].status = "Skipped",
                                     ![ri].error_message = NoRevenueMsg]]
                 /\ log_messages' = Append(log_messages,
                        LogEntry(report.report_number, "skipped", 0, NoRevenueMsg))
                 /\ last' = Observe("on_submit", cur, report, ri, TRUE, NoOutcome(invoices))
                 /\ UNCHANGED <<invoices, success_count, error_count>>
            ELSE IF ~o.raised
            THEN /\ batch' = [batch EXCEPT ![cur].imported_reports =
                        [rows EXCEPT ![ri].sales_invoice = o.name,
                                     ![ri].status = "Created"]]
                 /\ log_messages' = Append(log_messages,
                        LogEntry(report.report_number, "created", o.name, NoMsg))
                 /\ success_count' = success_count + 1
                 /\ invoices' = o.invoices
                 /\ last' = Observe("on_submit", cur, report, ri, FALSE, o)
                 /\ UNCHANGED error_count
            ELSE /\ batch' = [batch EXCEPT ![cur].imported_reports =
                        [rows EXCEPT ![ri].status = "Error",
                                     ![ri].error_message = o.message]]
                 /\ log_messages' = Append(log_messages,
                        LogEntry(report.report_number, "error", 0, o.message))
                 /\ error_count' = error_count + 1
                 /\ invoices' = o.invoices
                 /\ last' = Observe("on_submit", cur, report, ri, FALSE, o)
                 /\ UNCHANGED success_count
    /\ idx' = idx + 1
    /\ UNCHANGED <<pc, cur, response>>

\* The end of on_submit (70-84)
on_submit_end ==
    /\ UNCHANGED call_vars
    /\ pc = "on_submit"
    /\ idx > Len(parse_file(batch[cur]))
    /\ batch' = [batch EXCEPT ![cur].import_log = log_messages,
                              ![cur].import_status =
                                  submit_status(success_count, error_count)]
    /\ pc' = "idle"
    /\ cur' = ""
    /\ idx' = 0
    /\ log_messages' = << >>
    /\ success_count' = 0
    /\ error_count' = 0
    /\ last' = NoAttempt
    /\ UNCHANGED <<invoices, response>>

\* the loop that retries every row the file holds a report for
RECURSIVE NextRetry_all(_, _, _)
NextRetry_all(rows, reports, i) ==
    IF i > Len(rows) THEN i
    ELSE IF FirstReport(reports, rows[i].report_number, 1) # 0 THEN i
    ELSE NextRetry_all(rows, reports, i + 1)

\* 111-115: the first row at or after position i that the loop retries (its
\* status is Error or Pending and the file holds a report of its number),
\* else Len(rows) + 1; the loop passes over the other rows
RECURSIVE NextRetry(_, _, _)
NextRetry(rows, reports, i) ==
    IF i > Len(rows) THEN i
    ELSE IF /\ rows[i].status \in {"Error", "Pending"}
            /\ FirstReport(reports, rows[i].report_number, 1) # 0
         THEN i
    ELSE NextRetry(rows, reports, i + 1)

\* reprocess_failed on a submitted batch, up to its loop (101-109); readable
\* is whether the stored file can still be read (_get_file_content, 197-200)
reprocess_failed(b, readable) ==
    /\ UNCHANGED call_vars
    /\ pc = "idle"
    /\ batch[b].docstatus = 1
    /\ Len(batch[b].import_log) < MaxLog
    /\ IF ~(readable /\ parse_file_ok(batch[b]))
       THEN /\ response' = "throw"
            /\ UNCHANGED <<pc, cur, idx>>
       ELSE /\ response' = "ok"
            /\ pc' = "reprocess_failed"
            /\ cur' = b
            /\ idx' = NextRetry(batch[b].imported_reports, parse_file(batch[b]), 1)
    /\ UNCHANGED <<invoices, batch, log_messages, success_count, error_count, last>>

\* One retry of reprocess_failed's loop over the rows (111-135)
reprocess_row ==
    /\ UNCHANGED call_vars
    /\ pc = "reprocess_failed"
    /\ idx <= Len(batch[cur].imported_reports)
    /\ \E insert_ok \in BOOLEAN :
       \E rows \in {batch[cur].imported_reports} :
       \E reports \in {parse_file(batch[cur])} :
       \E report \in {reports[FirstReport(reports, rows[idx].report_number, 1)]} :
       \E o \in {attempt(report, Connector(batch[cur].connector), invoices,
                         LinkedNames(batch), insert_ok)} :
         /\ IF ~o.raised
            THEN /\ batch' = [batch EXCEPT ![cur].imported_reports =
                        [rows EXCEPT ![idx].sales_invoice = o.name,
                                     ![idx].status = "Created",
                                     ![idx].error_message = NoMsg]]
                 /\ log_messages' = Append(log_messages,
                        LogEntry(report.report_number, "created", o.name, NoMsg))
            ELSE /\ batch' = [batch EXCEPT ![cur].imported_reports =
                        [rows EXCEPT ![idx].status = "Error",
                                     ![idx].error_message = o.message]]
                 /\ log_messages' = Append(log_messages,
                        LogEntry(report.report_number, "error", 0, o.message))
         /\ invoices' = o.invoices
         /\ last' = Observe("reprocess_failed", cur, report, idx, FALSE, o)
         /\ idx' = NextRetry(rows, reports, idx + 1)
    /\ UNCHANGED <<pc, cur, response, success_count, error_count>>

\* The end of reprocess_failed (137-159)
reprocess_end ==
    /\ UNCHANGED call_vars
    /\ pc = "reprocess_failed"
    /\ idx > Len(batch[cur].imported_reports)
    /\ batch' = [batch EXCEPT
            ![cur].import_log =
                IF log_messages # << >> THEN batch[cur].import_log \o log_messages
                ELSE batch[cur].import_log,
            ![cur].import_status = reprocess_status(batch[cur].imported_reports)]
    /\ pc' = "idle"
    /\ cur' = ""
    /\ idx' = 0
    /\ log_messages' = << >>
    /\ last' = NoAttempt
    /\ UNCHANGED <<invoices, response, success_count, error_count>>

\* on_cancel (86-92), run when a submitted batch is cancelled; every linked
\* document must still exist for get_doc to return it
on_cancel(b) ==
    /\ UNCHANGED call_vars
    /\ pc = "idle"
    /\ batch[b].docstatus = 1
    /\ LET linked == LinkedNames([x \in {b} |-> batch[b]])
       IN /\ linked \subseteq DocNames(invoices)
          /\ invoices' = {IF d.name \in linked /\ d.docstatus = 1
                          THEN [d EXCEPT !.docstatus = 2] ELSE d : d \in invoices}
          /\ batch' = [batch EXCEPT ![b].docstatus = 2]
    /\ response' = "ok"
    /\ UNCHANGED pc
    /\ Frame

Next ==
    \/ \E b \in Batches, f \in FileNames : save_draft(b, f)
    \/ \E b \in Batches : preview_import(b)
    \/ \E b \in Batches : on_submit(b)
    \/ on_submit_report
    \/ on_submit_end
    \/ \E b \in Batches, readable \in BOOLEAN : reprocess_failed(b, readable)
    \/ reprocess_row
    \/ reprocess_end
    \/ \E b \in Batches : on_cancel(b)

Spec == Init /\ [][Next]_vars

\* a handler that has started runs on: each pass of its loop and its end are
\* taken when they can be (the request is served to completion)
FairSpec ==
    /\ Spec
    /\ WF_vars(on_submit_report) /\ WF_vars(on_submit_end)
    /\ WF_vars(reprocess_row) /\ WF_vars(reprocess_end)

----------------------------------------------------------------------------
(* Vocabulary of the properties *)

\* the running handler takes a per-report step (an attempt or a skip)
ReportStep == pc # "idle" /\ pc' = pc /\ idx' # idx

\* the report that step is about
StepReport ==
    IF pc = "on_submit" THEN parse_file(batch[cur])[idx]
    ELSE LET reports == parse_file(batch[cur])
         IN reports[FirstReport(reports,
                batch[cur].imported_reports[idx].report_number, 1)]

StepCompany == Connector(batch[cur].connector).company

\* the position of the row that step writes, in the rows after the step
StepRow ==
    IF pc = "on_submit"
    THEN FirstRow(batch'[cur].imported_reports, StepReport.report_number, 1)
    ELSE idx

\* the step goes as far as _create_sales_invoice
StepReachesBuild ==
    /\ pc = "reprocess_failed" \/ Len(StepReport.lines) > 0
    /\ validate_tax_amounts(StepReport) = 0

\* the non-cancelled documents of a report number and company
Keyed(st, number, company) ==
    {d \in st : /\ d.po_no[2] = number /\ d.po_no[1] = "Z-"
                /\ d.company = company /\ d.docstatus \in {0, 1}}

\* the row the last attempt wrote
LastRow == batch[last.batch].imported_reports[last.row]

----------------------------------------------------------------------------
(* C1 *)

\* C1: in every reachable state (any sequence of run_import, reprocess,
\* preview and cancel over both batches, draft and submit mode) the store
\* holds at most one non-cancelled document per (report number, company).
C1_UniqueDocumentPerReport ==
    \A d1 \in invoices : \A d2 \in invoices :
        (/\ d1.po_no = d2.po_no /\ d1.company = d2.company
         /\ d1.docstatus # 2 /\ d2.docstatus # 2) => d1 = d2

\* a report was imported again after its document was cancelled: the store
\* holds a cancelled and a non-cancelled document of one (number, company),
\* the latter put there by an attempt that has just run
C1_Witness ==
    /\ last.inserted # 0
    /\ \E d1 \in invoices : \E d2 \in invoices :
        /\ d1.po_no = d2.po_no /\ d1.company = d2.company
        /\ d1.docstatus = 2 /\ d2.docstatus # 2 /\ d2.name = last.inserted

----------------------------------------------------------------------------
(* C2 *)

\* C2: when a step reaches _create_sales_invoice and a finalized document of
\* (report number, company) exists, the store is left as it is and the row
\* links that document; when a draft of the key exists, it is gone after the
\* step, and any document of the key afterwards is a new one (a name the
\* store did not hold) carrying the totals built from the report.
C2_ReuseOrRebuild ==
    [][ (ReportStep /\ StepReachesBuild) =>
          \A d \in Keyed(invoices, StepReport.report_number, StepCompany) :
            /\ d.docstatus = 1 =>
                 /\ invoices' = invoices
                 /\ batch'[cur].imported_reports[StepRow].sales_invoice = d.name
                 /\ batch'[cur].imported_reports[StepRow].status = "Created"
            /\ d.docstatus = 0 =>
                 /\ d.name \notin DocNames(invoices')
                 /\ \A e \in Keyed(invoices', StepReport.report_number, StepCompany) :
                      /\ e.name \notin DocNames(invoices)
                      /\ e.net_total = total_net(StepReport)
                      /\ e.paid = total_payments(StepReport)
      ]_vars

\* an attempt found a draft, deleted it and inserted a new document
C2_Witness ==
    /\ last.existing = "draft"
    /\ last.deleted # 0
    /\ last.inserted # 0
    /\ last.inserted # last.deleted
    /\ last.deleted \notin DocNames(invoices)

----------------------------------------------------------------------------
(* More vocabulary *)

StepConnector == Connector(batch[cur].connector)

\* the row the step writes, as it is after the step
StepRowAfter == batch'[cur].imported_reports[StepRow]

\* the report-vs-document check rejects the document built from r under c
CheckFails(r, c) ==
    validate_invoice_against_z_ticket(NewInvoice(r, c, 0), r) # {}

\* a finalized document of the step's key exists
StepReuses ==
    \E d \in Keyed(invoices, StepReport.report_number, StepCompany) :
        d.docstatus = 1

\* the step's report fails the tax check, mapping resolution or the
\* report-vs-document check
StepFails ==
    \/ validate_tax_amounts(StepReport) # 0
    \/ /\ ~StepReuses
       /\ \/ FirstUnmappedLine(StepConnector, StepReport.lines, 1) # 0
          \/ FirstUnmappedPayment(StepConnector, StepReport.payments, 1) # 0
          \/ CheckFails(StepReport, StepConnector)

\* rows new continue rows old: nothing removed, and the rows kept differ at
\* most in status, error message and document link
Extends(old, new) ==
    /\ Len(new) >= Len(old)
    /\ \A i \in 1..Len(old) :
          new[i] = [old[i] EXCEPT !.status = new[i].status,
                                  !.error_message = new[i].error_message,
                                  !.sales_invoice = new[i].sales_invoice]

----------------------------------------------------------------------------
(* C3 *)

\* C3: in on_submit, a report that fails the tax check, mapping resolution,
\* the build or the report-vs-document check gets its row set to Error with
\* the failure message (the one the log records), no other row and no
\* document of another report is touched, and the loop goes on to the next
\* report; on_submit ends, and when it ends every parsed report has a row that
\* is Created, Skipped or Error, one log entry, and the batch status is set.
C3_PartialFailureIsolation ==
    /\ [][ (ReportStep /\ pc = "on_submit") =>
             /\ idx' = idx + 1 /\ pc' = pc /\ cur' = cur
             /\ Len(log_messages') = Len(log_messages) + 1
             /\ StepRowAfter.status \in {"Created", "Skipped", "Error"}
             /\ (Len(StepReport.lines) > 0 /\ StepFails) =>
                  /\ StepRowAfter.status = "Error"
                  /\ StepRowAfter.error_message # NoMsg
                  /\ log_messages'[Len(log_messages')] =
                        LogEntry(StepReport.report_number, "error", 0,
                                 StepRowAfter.error_message)
             /\ StepRowAfter.status = "Error" =>
                  /\ Len(StepReport.lines) > 0
                  /\ StepFails \/ StepRowAfter.error_message.kind = "insert failed"
             /\ \A i \in 1..Len(batch[cur].imported_reports) :
                  i # StepRow =>
                     batch'[cur].imported_reports[i] = batch[cur].imported_reports[i]
             /\ \A d \in invoices :
                  d \notin Keyed(invoices, StepReport.report_number, StepCompany)
                     => d \in invoices'
         ]_vars
    /\ [][ (pc = "on_submit" /\ pc' = "idle") =>
             LET reports == parse_file(batch[cur])
                 rows == batch'[cur].imported_reports
             IN /\ \A i \in 1..Len(reports) :
                      \E j \in 1..Len(rows) :
                         /\ rows[j].report_number = reports[i].report_number
                         /\ rows[j].status \in {"Created", "Skipped", "Error"}
                /\ Len(batch'[cur].import_log) = Len(reports)
                /\ \A i \in 1..Len(reports) :
                      batch'[cur].import_log[i].report_number = reports[i].report_number
                /\ batch'[cur].import_status \in {"Success", "Partial Success", "Error"}
         ]_vars
    /\ (pc = "on_submit") ~> (pc = "idle")

\* on_submit has recorded a failure for one report and gone on to process the
\* next one
C3_Witness ==
    /\ pc = "on_submit"
    /\ \E i \in 1..Len(log_messages) : \E j \in 1..Len(log_messages) :
          /\ i < j
          /\ log_messages[i].kind = "error"
          /\ log_messages[j].kind = "created"

----------------------------------------------------------------------------
(* C4 *)

\* the statement as the specification words it: after an attempt, either a
\* document of the report exists and the row is Created, or the row is Error
\* and the attempt inserted no document
C4_NoDocumentPersistedOnError ==
    (last.handler # "" /\ ~last.skipped) =>
        \/ /\ LastRow.status = "Created"
           /\ \E d \in invoices : d.name = LastRow.sales_invoice
        \/ /\ LastRow.status = "Error"
           /\ last.inserted = 0

\* C4: after each attempt either the row is Created and links a non-cancelled
\* document of the report that the store holds, or the row is Error and the
\* step finalized nothing; a row that ends Error has a document inserted by
\* the same step beside it exactly when the report-vs-document check failed,
\* and that document is a draft of the report (a failure before the insert
\* persists nothing).
C4_AllOrNothing ==
    [][ (ReportStep /\ (pc = "reprocess_failed" \/ Len(StepReport.lines) > 0)) =>
          LET new == invoices' \ invoices
              key == Keyed(invoices', StepReport.report_number, StepCompany)
          IN /\ StepRowAfter.status \in {"Created", "Error"}
             /\ StepRowAfter.status = "Created" =>
                  \E d \in key : d.name = StepRowAfter.sales_invoice
             /\ StepRowAfter.status = "Error" =>
                  /\ \A d \in new : d.docstatus = 0 /\ d \in key
                  /\ (new # {}) <=> (StepRowAfter.error_message.kind = CheckMsgKind)
                  /\ (new # {}) => CheckFails(StepReport, StepConnector)
      ]_vars

\* an attempt of on_submit inserted a draft, the check rejected it, and the
\* row is Error while the draft is in the store
C4_Witness ==
    /\ last.handler = "on_submit"
    /\ last.raised
    /\ last.inserted # 0
    /\ LastRow.status = "Error"
    /\ \E d \in invoices : d.name = last.inserted /\ d.docstatus = 0

----------------------------------------------------------------------------
(* C5 *)

\* C5: a step whose report-vs-document check fails after the insert leaves the
\* inserted document in the store as a draft and the row Error; and a draft
\* that is in the store stays there unchanged through every step except an
\* attempt for its own (report number, company), which removes it.
C5_DraftLeftInPlace ==
    [][ /\ (/\ ReportStep /\ StepReachesBuild /\ ~StepReuses
            /\ FirstUnmappedLine(StepConnector, StepReport.lines, 1) = 0
            /\ FirstUnmappedPayment(StepConnector, StepReport.payments, 1) = 0
            /\ CheckFails(StepReport, StepConnector)
            /\ StepRowAfter.error_message.kind # "insert failed") =>
              /\ StepRowAfter.status = "Error"
              /\ StepRowAfter.error_message.kind = CheckMsgKind
              /\ \E d \in invoices' :
                    /\ d.name \notin DocNames(invoices)
                    /\ d.docstatus = 0
                    /\ d \in Keyed(invoices', StepReport.report_number, StepCompany)
        /\ \A d \in invoices :
              (d.docstatus = 0 /\ d \notin invoices') =>
                 /\ ReportStep /\ StepReachesBuild
                 /\ d \in Keyed(invoices, StepReport.report_number, StepCompany)
                 /\ d.name \notin DocNames(invoices')
      ]_vars

\* a handler has ended and left behind an Error row with the check's message
\* and, in the store, the draft of that report and company
C5_Witness ==
    /\ pc = "idle"
    /\ \E b \in Batches : \E i \in 1..Len(batch[b].imported_reports) :
          LET row == batch[b].imported_reports[i]
          IN /\ row.status = "Error"
             /\ row.error_message.kind = CheckMsgKind
             /\ \E d \in Keyed(invoices, row.report_number,
                               Connector(batch[b].connector).company) :
                   d.docstatus = 0

----------------------------------------------------------------------------
(* C6 *)

\* C6: whenever a handler processes a report with zero lines, the row goes to
\* Skipped and nothing is looked up, deleted, inserted or submitted for it.
C6_ZeroLinesSkipped ==
    (last.handler # "" /\ last.lines = 0) =>
        /\ last.skipped
        /\ LastRow.status = "Skipped"
        /\ LastRow.error_message = NoRevenueMsg
        /\ last.existing = ""
        /\ last.deleted = 0
        /\ last.inserted = 0
        /\ ~last.submitted

----------------------------------------------------------------------------
(* C7 *)

\* on_submit ends in this step
SubmitEnds == pc = "on_submit" /\ pc' = "idle"

\* the entries of a kind in a log
CountLog(log, kind) == Cardinality({i \in 1..Len(log) : log[i].kind = kind})

\* the statement as the specification words it: the status on_submit sets is
\* Success when all rows are Created, Error when no row is Created (or there
\* are none), Partial Success whenever some rows are Created and some are not
C7_StatusFromRows ==
    [][ SubmitEnds =>
          LET rows == batch[cur].imported_reports
              created == CountRows(rows, {"Created"})
          IN batch'[cur].import_status =
                IF created = 0 THEN "Error"
                ELSE IF created = Len(rows) THEN "Success"
                ELSE "Partial Success"
      ]_vars

\* C7: the status on_submit sets is a function of what the run did with the
\* reports it attempted: Error when no attempt ended Created (including when
\* nothing was attempted), Success when at least one ended Created and none
\* ended Error, Partial Success when some ended Created and some Error; a
\* Skipped report is not an attempt and does not count either way.
C7_StatusFromAttempts ==
    [][ SubmitEnds =>
          LET created == CountLog(log_messages, "created")
              failed == CountLog(log_messages, "error")
          IN batch'[cur].import_status =
                IF created = 0 THEN "Error"
                ELSE IF failed = 0 THEN "Success"
                ELSE "Partial Success"
      ]_vars

\* on_submit has set Success on a batch that holds a Created and a Skipped row
C7_Witness ==
    /\ pc = "idle"
    /\ \E b \in Batches :
          /\ batch[b].import_status = "Success"
          /\ Len(batch[b].import_log) = Len(parse_file(batch[b]))
          /\ CountRows(batch[b].imported_reports, {"Created"}) > 0
          /\ CountRows(batch[b].imported_reports, {"Skipped"}) > 0
          /\ CountLog(batch[b].import_log, "skipped") > 0

----------------------------------------------------------------------------
(* C8 *)

\* C8: while reprocess_failed runs, each retry is of a row that is Error or
\* Pending; a row that is Created or Skipped keeps its status, error message
\* and document link through every step; the store changes only in a retry
\* and only in documents of the retried row's report and company; and at the
\* end the batch status is computed from the statuses of all rows.
C8_RetriesOnlyFailedRows ==
    [][ pc = "reprocess_failed" =>
          LET rows == batch[cur].imported_reports
          IN /\ \A i \in 1..Len(rows) :
                   rows[i].status \in {"Created", "Skipped"} =>
                      /\ Len(batch'[cur].imported_reports) >= i
                      /\ batch'[cur].imported_reports[i] = rows[i]
             /\ ReportStep =>
                   /\ rows[idx].status \in {"Error", "Pending"}
                   /\ \A d \in (invoices \ invoices') \cup (invoices' \ invoices) :
                         /\ d.po_no = po_no(rows[idx].report_number)
                         /\ d.company = StepCompany
             /\ ~ReportStep => invoices' = invoices
             /\ pc' = "idle" =>
                   batch'[cur].import_status =
                      IF Len(rows) = 0 THEN "Error"
                      ELSE IF \A i \in 1..Len(rows) :
                                 rows[i].status \in {"Created", "Skipped"}
                           THEN "Success"
                      ELSE IF \A i \in 1..Len(rows) : rows[i].status # "Created"
                           THEN "Error"
                      ELSE "Partial Success"
      ]_vars

\* reprocess_failed has retried a row of a batch that also holds a Created
\* row it did not retry
C8_Witness ==
    /\ pc = "reprocess_failed"
    /\ last.handler = "reprocess_failed"
    /\ \E i \in 1..Len(batch[cur].imported_reports) :
          /\ i < last.row
          /\ batch[cur].imported_reports[i].status = "Created"
          /\ batch[cur].imported_reports[i].sales_invoice # 0

----------------------------------------------------------------------------
(* C9 *)

----------------------------------------------------------------------------
(* C10 *)

\* C10: a batch whose file its parser does not accept never enters
\* processing, and while it holds that file nothing of it changes but the
\* file the user attaches; and a handler call that throws (run_import or
\* reprocess on a file that is rejected or cannot be read) changes no row,
\* log, status or document and starts no loop.
C10_StructuralFailureAborts ==
    [][ /\ \A b \in Batches :
              (/\ batch[b].import_file # ""
               /\ FileFormat(batch[b].import_file) #
                     Connector(batch[b].connector).parser_class) =>
                 /\ batch'[b] = [batch[b] EXCEPT !.import_file = batch'[b].import_file]
                 /\ pc' # "idle" => cur' # b
        /\ response' = "throw" =>
              /\ invoices' = invoices
              /\ batch' = batch
              /\ pc' = pc /\ pc = "idle"
              /\ log_messages' = log_messages
      ]_vars

\* a handler call has thrown on a draft batch that has rows from an earlier
\* preview and now holds a file its parser rejects
C10_Witness ==
    /\ response = "throw"
    /\ \E b \in Batches :
          /\ batch[b].import_file # ""
          /\ FileFormat(batch[b].import_file) #
                Connector(batch[b].connector).parser_class
          /\ batch[b].preview_html
          /\ Len(batch[b].imported_reports) > 0

----------------------------------------------------------------------------
(* C11 *)

MinOf(S) == CHOOSE x \in S : \A y \in S : x <= y

\* the source codes the files and the connectors use, and a variant in
\* another case
SourceCodes == {"A", "a", "X", "TVA-A", "TVA-B", "cash", "Cash", "eft", "voucher"}

\* the entries of a mapping table whose source_code is exactly code
Matches(mapping, code) ==
    {i \in 1..Len(mapping) : mapping[i].source_code = code}

\* the lines (payments) of r that resolve to no item (method) under c
UnresolvedLines(r, c) ==
    {i \in 1..Len(r.lines) :
        /\ Matches(c.item_mapping, r.lines[i].source_code) = {}
        /\ c.default_unmapped_item = ""}

UnresolvedPayments(r, c) ==
    {i \in 1..Len(r.payments) :
        Matches(c.payment_mapping, r.payments[i].source_code) = {}}

\* C11: a line's item is the item of the first item-mapping entry whose
\* source_code equals the line's exactly, else the connector's default
\* unmapped item; a payment's method is that of the first exact match, with
\* no fallback.  A build that is reached (the tax check passed, no finalized
\* document is reused) fails for mapping exactly when some line resolves to
\* no item or some payment to no method; the row is then Error, the message
\* (also the log's) names the first unmapped source code, lines before
\* payments, and no document is inserted.
C11_MappingResolution ==
    [][ /\ ReportStep => \A code \in SourceCodes :
              LET c == StepConnector
                  items == Matches(c.item_mapping, code)
                  modes == Matches(c.payment_mapping, code)
              IN /\ item_code_for(c, code) =
                       IF items = {} THEN c.default_unmapped_item
                       ELSE c.item_mapping[MinOf(items)].item
                 /\ get_mode_of_payment_for_source_code(c, code) =
                       IF modes = {} THEN ""
                       ELSE c.payment_mapping[MinOf(modes)].mode_of_payment
        /\ (ReportStep /\ StepReachesBuild /\ ~StepReuses) =>
              LET r == StepReport
                  ul == UnresolvedLines(r, StepConnector)
                  up == UnresolvedPayments(r, StepConnector)
                  message == StepRowAfter.error_message
                  failed == /\ StepRowAfter.status = "Error"
                            /\ message.kind \in {"No item mapping found",
                                                 "No payment mapping found"}
              IN /\ failed <=> (ul # {} \/ up # {})
                 /\ failed =>
                      /\ message =
                            IF ul # {}
                            THEN Msg("No item mapping found",
                                     r.lines[MinOf(ul)].source_code, {})
                            ELSE Msg("No payment mapping found",
                                     r.payments[MinOf(up)].source_code, {})
                      /\ log_messages'[Len(log_messages')].message = message
                      /\ invoices' \subseteq invoices
      ]_vars

\* an attempt has failed on a payment code that no entry maps, on a report
\* whose lines all resolve: the row names the code and nothing was inserted
C11_Witness ==
    /\ last.handler # ""
    /\ last.raised
    /\ LastRow.status = "Error"
    /\ LastRow.error_message = Msg("No payment mapping found", "voucher", {})
    /\ last.inserted = 0

----------------------------------------------------------------------------
(* The tabular parser: parsers/restomax.py.  A row is what _read_file gives  *)
(* for one data row.  Texts whose characters matter are sequences of         *)
(* character codes (a digit is its value, Space is a blank); a Decimal is    *)
(* its value in hundredths with the number of decimals it was written with   *)
(* (str() of it shows them).  The amounts of the reports built here are in   *)
(* thousandths, since halving an amount in hundredths need not give one.     *)

Space == 0 - 1

Decimal(cents, places) == [cents |-> cents, places |-> places]

TabRow(z, date, account, id, description, tva, debit, credit) ==
    [z |-> z, date |-> date, account |-> account, id |-> id,
     description |-> description, tva |-> tva, debit |-> debit,
     credit |-> credit]

\* str.strip() of a text
RECURSIVE strip(_)
strip(t) ==
    IF t = << >> THEN t
    ELSE IF Head(t) = Space THEN strip(Tail(t))
    ELSE IF t[Len(t)] = Space THEN strip(SubSeq(t, 1, Len(t) - 1))
    ELSE t

\* account.startswith(prefix)
startswith(account, prefix) ==
    Len(account) >= Len(prefix) /\ SubSeq(account, 1, Len(prefix)) = prefix

REVENUE_ACCOUNT_PREFIX == <<7, 0, 0>>
VAT_ACCOUNT_PREFIX == <<4, 5, 1>>
PAYMENT_ACCOUNT_PREFIX == <<5, 8, 0>>

\* the descriptions the rows of the model carry, and what the substring
\* tests of lines 91-94, 110 and 129 give for them
Descriptions ==
    {"", "Plat du jour", "Boissons", "Total CA", "Sous-total boissons",
     "TVA 10", "Total TVA", "Cash", "Total PAIEMENT"}

HasSummaryKeyword(description) ==
    description \in {"Total CA", "Sous-total boissons", "Total TVA", "Total PAIEMENT"}

HasTotal(description) ==
    description \in {"Total CA", "Sous-total boissons", "Total TVA", "Total PAIEMENT"}

IsPaymentTotal(description) == description \in {"Total CA", "Total PAIEMENT"}

\* a key made of the whole row
line_key_whole_row(row) == <<strip(row.z), row>>

\* line 72: the key of a row (the amounts as str() shows them)
line_key(row) ==
    <<strip(row.z), row.account, row.description, row.debit, row.credit>>

\* 57-76: the rows that pass the loop's head: those with a report number whose
\* key no earlier such row has
RECURSIVE kept_rows(_, _, _)
kept_rows(rows, i, seen_lines) ==
    IF i > Len(rows) THEN << >>
    ELSE IF rows[i].z = << >> \/ line_key(rows[i]) \in seen_lines
         THEN kept_rows(rows, i + 1, seen_lines)
    ELSE <<rows[i]>> \o kept_rows(rows, i + 1, seen_lines \cup {line_key(rows[i])})

\* a quantize that cuts the third decimal off
quantize_truncating(mills) == mills - (mills % 10)

\* Decimal.quantize(Decimal("0.01")) of an amount in thousandths, rounding
\* half to even
quantize(mills) ==
    LET low == mills % 10
        base == mills - low
    IN IF low < 5 THEN base
       ELSE IF low > 5 THEN base + 10
       ELSE IF (base \div 10) % 2 = 0 THEN base ELSE base + 10

\* amount / 2 in thousandths, of an amount in hundredths
Half(cents) == cents * 5

\* 88-140: what a kept row adds to its report: "revenue", "vat", "payment"
\* or "" (nothing), and the halved amount
classify(row) ==
    LET up == Half(row.credit.cents - row.debit.cents)
        down == Half(row.debit.cents - row.credit.cents)
    IN IF startswith(row.account, REVENUE_ACCOUNT_PREFIX)
       THEN IF ~HasSummaryKeyword(row.description) /\ up > 0
            THEN [kind |-> "revenue", amount |-> up]
            ELSE [kind |-> "", amount |-> 0]
       ELSE IF startswith(row.account, VAT_ACCOUNT_PREFIX)
       THEN IF ~HasTotal(row.description) /\ row.id # "" /\ up # 0
            THEN [kind |-> "vat", amount |-> up]
            ELSE [kind |-> "", amount |-> 0]
       ELSE IF startswith(row.account, PAYMENT_ACCOUNT_PREFIX)
       THEN IF ~IsPaymentTotal(row.description) /\ down > 0
            THEN [kind |-> "payment", amount |-> down]
            ELSE [kind |-> "", amount |-> 0]
       ELSE [kind |-> "", amount |-> 0]

\* id_restomax or description, the description being "Others" when empty
source_code_of(row) ==
    IF row.id # "" THEN row.id
    ELSE IF row.description # "" THEN row.description ELSE "Others"

\* _parse_date: the date of a cell that holds one, else today's
parse_date(cell, today) == IF cell = << >> THEN today ELSE cell

\* the rows of a kind among the kept rows of one report, in order
RECURSIVE entries(_, _, _, _)
entries(kept, number, kind, i) ==
    IF i > Len(kept) THEN << >>
    ELSE IF strip(kept[i].z) = number /\ classify(kept[i]).kind = kind
         THEN <<kept[i]>> \o entries(kept, number, kind, i + 1)
    ELSE entries(kept, number, kind, i + 1)

\* 150-154: vat_by_rate, the VAT rows summed by rate
RECURSIVE vat_by_rate_of(_, _)
vat_by_rate_of(vat_rows, i) ==
    IF i = 0 THEN << >>
    ELSE LET before == vat_by_rate_of(vat_rows, i - 1)
             rate == vat_rows[i].tva
             amount == classify(vat_rows[i]).amount
         IN IF rate \in DOMAIN before
            THEN [before EXCEPT ![rate] = before[rate] + amount]
            ELSE [r \in DOMAIN before \cup {rate} |->
                     IF r = rate THEN amount ELSE before[r]]

\* 78-84, 143: the report numbers in the order the reports are first made
RECURSIVE report_numbers(_, _)
report_numbers(kept, i) ==
    IF i = 0 THEN << >>
    ELSE LET before == report_numbers(kept, i - 1)
             number == strip(kept[i].z)
         IN IF \E j \in 1..Len(before) : before[j] = number
            THEN before ELSE Append(before, number)

\* 144-190: the report of one number
report_of(kept, number, today) ==
    LET first == CHOOSE i \in 1..Len(kept) :
                     /\ strip(kept[i].z) = number
                     /\ \A j \in 1..(i - 1) : strip(kept[j].z) # number
        revenues == entries(kept, number, "revenue", 1)
        payments == entries(kept, number, "payment", 1)
        vat == entries(kept, number, "vat", 1)
    IN POSReport(number, parse_date(kept[first].date, today),
          [i \in 1..Len(revenues) |->
              POSLine(source_code_of(revenues[i]),
                      quantize(classify(revenues[i]).amount),
                      revenues[i].tva, 0,
                      quantize(classify(revenues[i]).amount))],
          [i \in 1..Len(payments) |->
              POSPayment(source_code_of(payments[i]),
                         quantize(classify(payments[i]).amount))],
          vat_by_rate_of(vat, Len(vat)))

\* a < b for two texts, or two dates, compared item by item
RECURSIVE LexLess(_, _)
LexLess(a, b) ==
    IF b = << >> THEN FALSE
    ELSE IF a = << >> THEN TRUE
    ELSE IF Head(a) # Head(b) THEN Head(a) < Head(b)
    ELSE LexLess(Tail(a), Tail(b))

\* the sort key (report_date, report_number) of a is below that of b
KeyLess(a, b) ==
    \/ LexLess(a.report_date, b.report_date)
    \/ a.report_date = b.report_date /\ LexLess(a.report_number, b.report_number)

\* sorted(reports, key = (report_date, report_number)): a stable sort
RECURSIVE insert_sorted(_, _)
insert_sorted(sorted, r) ==
    IF sorted = << >> THEN <<r>>
    ELSE IF KeyLess(r, sorted[Len(sorted)])
         THEN Append(insert_sorted(SubSeq(sorted, 1, Len(sorted) - 1), r),
                     sorted[Len(sorted)])
    ELSE Append(sorted, r)

\* a parse that returns the reports in the order it made them
unsorted_reports(reports, i) == reports

RECURSIVE sorted_reports(_, _)
sorted_reports(reports, i) ==
    IF i = 0 THEN << >>
    ELSE insert_sorted(sorted_reports(reports, i - 1), reports[i])

\* RestomaxParser.parse once _read_file has given the rows (54-192)
RestomaxParser_parse(rows, today) ==
    LET kept == kept_rows(rows, 1, {})
        numbers == report_numbers(kept, Len(kept))
        reports == [i \in 1..Len(numbers) |-> report_of(kept, numbers[i], today)]
    IN sorted_reports(reports, Len(reports))

\* what one of _read_file's two attempts gives: the rows, or a failure
Read(rows) == [ok |-> TRUE, rows |-> rows]
ReadFails == [ok |-> FALSE, rows |-> << >>]

\* 194-224: the rows of a file, of which csv is what the CSV reader gives and
\* xlsx what loading it as a workbook gives; raised when neither gives rows
read_file(file) ==
    IF file.csv.ok /\ file.csv.rows # << >> THEN [raised |-> FALSE, rows |-> file.csv.rows]
    ELSE IF file.xlsx.ok THEN [raised |-> FALSE, rows |-> file.xlsx.rows]
    ELSE [raised |-> TRUE, rows |-> << >>]

\* RestomaxParser.parse(file_content)
RestomaxParser_parse_file(file, today) ==
    IF read_file(file).raised THEN [raised |-> TRUE, reports |-> << >>]
    ELSE [raised |-> FALSE,
          reports |-> RestomaxParser_parse(read_file(file).rows, today)]

----------------------------------------------------------------------------
(* The PDF parser: parsers/restomax_pdf.py.  The text of a document is the   *)
(* sequence of its blocks, one per "Z financier <number>" header: the number *)
(* of the header, the date the block states (none: << >>) and the lines and  *)
(* payments _extract_tva_breakdown and _extract_payments find in it.         *)

Block(number, date, lines, payments) ==
    [number |-> number, date |-> date, lines |-> lines, payments |-> payments]

\* _extract_date: the date the block states, else today's
extract_date(block, today) == IF block.date = << >> THEN today ELSE block.date

\* _parse_single_report(z_number, z_text)
parse_single_report(block, today) ==
    POSReport(block.number, extract_date(block, today), block.lines,
              block.payments, << >>)

\* _parse_text(text): one report per header, sorted
parse_text(blocks, today) ==
    LET reports == [i \in 1..Len(blocks) |-> parse_single_report(blocks[i], today)]
    IN sorted_reports(reports, Len(reports))

----------------------------------------------------------------------------
(* Functions called on their own: the argument is drawn, the call is made   *)
(* and what it returns is kept.  The orchestrator stays idle.               *)

\* the most lines a report given to _validate_tax_amounts has
MaxTaxLines == 2

\* the sequences over S of length 1 to n
SeqsUpTo(S, n) == UNION {[1..k -> S] : k \in 1..n}

\* lines around the limits of the tax check: the expected tax is 1.10 or
\* 2.14 (rate 10) or 0 (rate 0), the stated tax is off by 0, 0.01 or 1.00
\* either way, or is 1.01 less
TaxLines ==
    {POSLine("TVA-A", net, rate, (net * rate) \div 100 + off,
             net + (net * rate) \div 100 + off) :
        net \in {1100, 2140}, rate \in {0, 10},
        off \in {-101, -100, -1, 0, 1, 100}}

\* the reports of up to n such lines given to _validate_tax_amounts
TaxInputs(n) ==
    {[kind |-> "validate_tax_amounts",
      report |-> POSReport(N1, D1, lines, << >>, vat)] :
        lines \in SeqsUpTo({l \in TaxLines : l.tax_amount >= 0}, n),
        vat \in {<< >>, (10 :> 200)}}

\* the reports given to _validate_invoice_against_z_ticket (net 1.14 and
\* 10.00, VAT 1.00 and 2.00) and the documents: each total of the document
\* is the report's, off by 0, 1.00 or 1.01 either way
CheckReports ==
    {POSReport(N1, D1, <<POSLine("A", 114, 10, 0, 114)>>,
               <<POSPayment("cash", 214)>>, (10 :> 100)),
     TabOk(N1)}

CheckOffsets == {-101, -100, 0, 100, 101}

CheckInputs ==
    {c \in {[kind |-> "validate_invoice_against_z_ticket", report |-> r,
             si |-> [net_total |-> total_net(r) + o1,
                     total_taxes_and_charges |-> total_tax(r) + o2,
                     grand_total |-> total_gross(r) + o3,
                     paid |-> total_payments(r) + o4]] :
               r \in CheckReports, o1 \in CheckOffsets, o2 \in CheckOffsets,
               o3 \in CheckOffsets, o4 \in CheckOffsets} :
        c.si.total_taxes_and_charges >= 0}

\* dates of the exports, and the days a parser may run on
Day1 == <<2025, 6, 1>>
Day2 == <<2025, 6, 2>>
Todays == {Day1, <<2025, 6, 3>>}

Zero == Decimal(0, 2)
Sales == <<7, 0, 0, 1, 0, 0>>
Vat == <<4, 5, 1, 0, 0, 0>>
Till == <<5, 8, 0, 0, 0, 0>>
Purchases == <<6, 0, 0, 0, 0, 0>>

\* the rows of the exports given to the tabular parser: sales of report "1"
\* (20.00, the same written 20.0, the same under another identifier and date,
\* 0.15, a refund, a total), its VAT (2.01 and 0.40 at the same rate, and
\* one without identifier) and its takings (11.00); a sale of report " 10"
\* (60.00) and one of report "2" (0.01) a day earlier; a purchase of report "2" without a date; a row without
\* a report number
TabRows ==
    {TabRow(<<1>>, Day2, Sales, "A", "Plat du jour", 10, Zero, Decimal(2000, 2)),
     TabRow(<<1>>, Day2, Sales, "A", "Plat du jour", 10, Zero, Decimal(2000, 1)),
     TabRow(<<1>>, Day1, Sales, "X", "Plat du jour", 0, Zero, Decimal(2000, 2)),
     TabRow(<<1>>, Day2, Sales, "", "Boissons", 10, Zero, Decimal(15, 2)),
     TabRow(<<1>>, Day2, Sales, "A", "Plat du jour", 10, Decimal(2000, 2), Zero),
     TabRow(<<1>>, Day2, Sales, "", "Total CA", 0, Zero, Decimal(4000, 2)),
     TabRow(<<1>>, Day2, Vat, "TVA-A", "TVA 10", 10, Zero, Decimal(201, 2)),
     TabRow(<<1>>, Day2, Vat, "TVA-A2", "TVA 10", 10, Zero, Decimal(40, 2)),
     TabRow(<<1>>, Day2, Vat, "", "TVA 10", 10, Zero, Decimal(201, 2)),
     TabRow(<<1>>, Day2, Till, "cash", "Cash", 0, Decimal(1100, 2), Zero),
     TabRow(<<Space, 1, 0>>, Day1, Sales, "A", "Plat du jour", 10, Zero, Decimal(6000, 2)),
     TabRow(<<2>>, Day1, Sales, "A", "", 0, Zero, Decimal(1, 2)),
     TabRow(<<2>>, << >>, Purchases, "", "Boissons", 0, Decimal(500, 2), Zero),
     TabRow(<< >>, Day1, Sales, "A", "Plat du jour", 10, Zero, Decimal(2000, 2))}

\* the most rows of an export
MaxRows == 3

\* the sequences over S of length 0 to n
SeqsTo(S, n) == {<< >>} \cup SeqsUpTo(S, n)

\* the files: text exports of up to n rows (loading one as a workbook
\* fails), workbooks of up to one row (reading one as CSV fails) and a file
\* that is neither
TabFiles(n) ==
    {[csv |-> Read(rows), xlsx |-> ReadFails] : rows \in SeqsTo(TabRows, n)}
    \cup {[csv |-> ReadFails, xlsx |-> Read(rows)] : rows \in SeqsTo(TabRows, 1)}
    \cup {[csv |-> ReadFails, xlsx |-> ReadFails]}

TabInputs(n) == {[kind |-> "RestomaxParser.parse", file |-> f] : f \in TabFiles(n)}

\* the most headers of a PDF text
MaxBlocks == 2

\* the blocks of the texts: reports "1", "10" and "2", dated the first, the
\* second or not at all, with the content of PdfOk or none
PdfBlocks ==
    {Block(number, date, content.lines, content.payments) :
        number \in {<<1>>, <<1, 0>>, <<2>>},
        date \in {Day1, Day2, << >>},
        content \in {PdfOk(N1), PdfZero(N1)}}

\* the texts of up to n blocks
PdfInputs(n) ==
    {[kind |-> "RestomaxPDFParser.parse", text |-> blocks] :
        blocks \in SeqsTo(PdfBlocks, n)}

\* the most lines, and the most payments, appended to a report under
\* construction
MaxItems == 2

\* what is appended to a report under construction: a line of a tabular
\* export (no tax of its own), lines of a PDF (with tax; the second with a
\* gross amount that is not net + tax), a payment, and VAT amounts per rate
ReportLines ==
    {POSLine("A", 1000, 10, 0, 1000), POSLine("TVA-A", 2000, 5, 100, 2100),
     POSLine("TVA-B", 500, 20, 20, 530)}
ReportPayments == {POSPayment("cash", 1200)}
ReportRates == {5, 10}
ReportVatAmounts == {0, 200}

\* a report as constructed: POSReport(report_number, report_date)
\* the most rows of a batch whose status is computed
MaxStatusRows == 3

\* the statuses a row has
RowStatuses == {"Pending", "Created", "Skipped", "Error"}

\* the rows of a batch at the end of a handler, as far as the status rules
\* read them: up to n rows in any statuses
StatusInputs(n) ==
    {[kind |-> "import_status",
      rows |-> [i \in 1..Len(statuses) |-> [status |-> statuses[i]]]] :
        statuses \in SeqsTo(RowStatuses, n)}

ReportInputs == {[kind |-> "POSReport", report |-> POSReport(N1, D1, << >>, << >>, << >>)]}

\* the arguments of the calls, within the bounds given
CallInputs(lines, rows, blocks) ==
    TaxInputs(lines) \cup CheckInputs \cup TabInputs(rows) \cup PdfInputs(blocks)
        \cup ReportInputs \cup StatusInputs(MaxStatusRows)

CallInit ==
    /\ invoices = {}
    /\ batch = [b \in Batches |-> NewBatch("K-TAB")]
    /\ pc = "idle"
    /\ cur = ""
    /\ idx = 0
    /\ log_messages = << >>
    /\ success_count = 0
    /\ error_count = 0
    /\ response = "ok"
    /\ last = NoAttempt
    /\ given \in CallInputs(MaxTaxLines, MaxRows, MaxBlocks)
    /\ returned = NoCall

\* _validate_tax_amounts(report)
call_validate_tax_amounts ==
    /\ given.kind = "validate_tax_amounts"
    /\ returned = NoCall
    /\ returned' = [kind |-> given.kind,
                    raised |-> validate_tax_amounts(given.report) # 0,
                    line |-> validate_tax_amounts(given.report),
                    warnings |-> tax_warnings(given.report)]
    /\ UNCHANGED <<given, site_vars>>

\* _validate_invoice_against_z_ticket(si, report)
call_validate_invoice_against_z_ticket ==
    /\ given.kind = "validate_invoice_against_z_ticket"
    /\ returned = NoCall
    /\ LET errors == validate_invoice_against_z_ticket(given.si, given.report)
       IN returned' = [kind |-> given.kind, raised |-> errors # {},
                       message |-> IF errors = {} THEN NoMsg
                                   ELSE Msg(CheckMsgKind, "", errors)]
    /\ UNCHANGED <<given, site_vars>>

\* RestomaxParser.parse(file_content), run on one of the days
call_RestomaxParser_parse ==
    /\ given.kind = "RestomaxParser.parse"
    /\ returned = NoCall
    /\ \E today \in Todays :
          LET out == RestomaxParser_parse_file(given.file, today)
          IN returned' = [kind |-> given.kind, today |-> today,
                          raised |-> out.raised, reports |-> out.reports]
    /\ UNCHANGED <<given, site_vars>>

\* RestomaxPDFParser.parse(file_content) of a document with the given text
call_RestomaxPDFParser_parse ==
    /\ given.kind = "RestomaxPDFParser.parse"
    /\ returned = NoCall
    /\ \E today \in Todays :
          returned' = [kind |-> given.kind, today |-> today, raised |-> FALSE,
                       reports |-> parse_text(given.text, today)]
    /\ UNCHANGED <<given, site_vars>>

\* report.lines.append(line)
report_append_line ==
    /\ given.kind = "POSReport"
    /\ Len(given.report.lines) < MaxItems
    /\ \E line \in ReportLines :
          given' = [given EXCEPT !.report.lines = Append(@, line)]
    /\ UNCHANGED <<returned, site_vars>>

\* report.payments.append(payment)
report_append_payment ==
    /\ given.kind = "POSReport"
    /\ Len(given.report.payments) < MaxItems
    /\ \E payment \in ReportPayments :
          given' = [given EXCEPT !.report.payments = Append(@, payment)]
    /\ UNCHANGED <<returned, site_vars>>

\* report.vat_by_rate[rate] = Decimal(0); report.vat_by_rate[rate] += amount
report_add_vat ==
    /\ given.kind = "POSReport"
    /\ \E rate \in ReportRates, amount \in ReportVatAmounts :
          LET vat == given.report.vat_by_rate
          IN /\ rate \in DOMAIN vat => vat[rate] + amount <= 200
             /\ given' = [given EXCEPT !.report.vat_by_rate =
                   [k \in DOMAIN vat \cup {rate} |->
                       IF k = rate
                       THEN (IF rate \in DOMAIN vat THEN vat[rate] ELSE 0) + amount
                       ELSE vat[k]]]
    /\ UNCHANGED <<returned, site_vars>>

\* a read of report.total_net, .total_tax, .total_gross and .total_payments
report_read_totals ==
    /\ given.kind = "POSReport"
    /\ returned' = [kind |-> "totals",
                    total_net |-> total_net(given.report),
                    total_tax |-> total_tax(given.report),
                    total_gross |-> total_gross(given.report),
                    total_payments |-> total_payments(given.report)]
    /\ UNCHANGED <<given, site_vars>>

\* a report of the tabular parser with its lines' and payments' amounts in
\* hundredths, as the orchestrator's operators take them (they are whole
\* hundredths once quantized; of vat_by_rate the tax check reads only
\* whether it is empty, and it is left as it is)
InHundredths(r) ==
    [r EXCEPT
       !.lines = [i \in 1..Len(r.lines) |->
                     [r.lines[i] EXCEPT !.net_amount = @ \div 10,
                                        !.gross_amount = @ \div 10]],
       !.payments = [i \in 1..Len(r.payments) |->
                        [r.payments[i] EXCEPT !.amount = @ \div 10]]]

\* on_submit 31 and 50: _validate_tax_amounts on each report the tabular
\* parser has returned
call_validate_parsed_reports ==
    /\ returned.kind = "RestomaxParser.parse"
    /\ ~returned.raised
    /\ returned.reports # << >>
    /\ returned' =
          [kind |-> "validate_tax_amounts of parsed",
           reports |-> returned.reports,
           raised |-> [i \in 1..Len(returned.reports) |->
                          validate_tax_amounts(InHundredths(returned.reports[i])) # 0],
           warnings |-> [i \in 1..Len(returned.reports) |->
                            tax_warnings(InHundredths(returned.reports[i]))]]
    /\ UNCHANGED <<given, site_vars>>

\* the end of on_submit (73-84) and the end of reprocess_failed (141-156) for
\* a batch with the given rows: on_submit has counted one success per row it
\* set to Created and one error per row it set to Error (53-56, 62-66)
call_import_status ==
    /\ given.kind = "import_status"
    /\ returned = NoCall
    /\ returned' = [kind |-> given.kind,
                    on_submit |-> submit_status(CountRows(given.rows, {"Created"}),
                                                CountRows(given.rows, {"Error"})),
                    reprocess_failed |-> reprocess_status(given.rows)]
    /\ UNCHANGED <<given, site_vars>>

CallNext ==
    \/ report_append_line
    \/ report_append_payment
    \/ report_add_vat
    \/ report_read_totals
    \/ call_validate_tax_amounts
    \/ call_validate_invoice_against_z_ticket
    \/ call_RestomaxParser_parse
    \/ call_RestomaxPDFParser_parse
    \/ call_validate_parsed_reports
    \/ call_import_status

CallSpec == CallInit /\ [][CallNext]_vars

----------------------------------------------------------------------------
(* C12 *)

\* C12: for a report without vat_by_rate, with d = |net x rate / 100 - tax|
\* of a line with a positive rate: the check throws iff some line has
\* d > 1.00, and of the lines it gets to it warns for exactly those with
\* 0.01 < d <= 1.00 and is silent for those with d <= 0.01.
C12_TaxTolerance ==
    (returned.kind = "validate_tax_amounts" /\ ~HasVat(given.report)) =>
        LET lines == given.report.lines
            failing == {i \in 1..Len(lines) :
                           lines[i].tax_rate > 0 /\ TaxDiff(lines[i]) > 10000}
        IN /\ returned.raised <=> failing # {}
           /\ \A i \in 1..Len(lines) :
                 (lines[i].tax_rate > 0 /\ \A j \in failing : i < j) =>
                    (i \in returned.warnings <=>
                        (TaxDiff(lines[i]) > 100 /\ TaxDiff(lines[i]) <= 10000))

----------------------------------------------------------------------------
(* C13 *)

\* C13: the check compares all four pairs (net, tax, gross, payments) whatever
\* the earlier ones gave; it throws iff at least one pair differs by more
\* than 1.00, and the message has one entry for exactly each such pair.
C13_FourPairCheck ==
    returned.kind = "validate_invoice_against_z_ticket" =>
        LET r == given.report
            si == given.si
            exceeded ==
                {p \in {"net", "tax", "gross", "payments"} :
                    \/ p = "net" /\ Abs(total_net(r) - si.net_total) > 100
                    \/ p = "tax" /\ Abs(total_tax(r) - si.total_taxes_and_charges) > 100
                    \/ p = "gross" /\ Abs(total_gross(r) - si.grand_total) > 100
                    \/ p = "payments" /\ Abs(total_payments(r) - si.paid) > 100}
        IN /\ returned.raised <=> exceeded # {}
           /\ returned.message.pairs = exceeded

----------------------------------------------------------------------------
(* C14 *)

\* a is b or comes before it, item by item: a is the start of b, or a has
\* the smaller item where they first differ
TextLeq(a, b) ==
    \/ Len(a) <= Len(b) /\ SubSeq(b, 1, Len(a)) = a
    \/ \E k \in 1..Len(a) :
          /\ k <= Len(b)
          /\ SubSeq(a, 1, k - 1) = SubSeq(b, 1, k - 1)
          /\ a[k] < b[k]

ParseReturned ==
    /\ returned.kind \in {"RestomaxParser.parse", "RestomaxPDFParser.parse"}
    /\ ~returned.raised

\* C14: what either parser returns is sorted ascending by (report_date,
\* report_number), the number compared as text, whatever the order of the
\* rows or blocks given.
C14_ParseOutputSorted ==
    ParseReturned =>
        \A i \in 1..Len(returned.reports) : \A j \in (i + 1)..Len(returned.reports) :
            LET a == returned.reports[i]
                b == returned.reports[j]
            IN /\ TextLeq(a.report_date, b.report_date)
               /\ a.report_date = b.report_date =>
                     TextLeq(a.report_number, b.report_number)

\* an export whose first row is of report "2" and a later one of report "10",
\* the same day: "10" is returned before "2"
C14_Witness ==
    /\ returned.kind = "RestomaxParser.parse"
    /\ ~returned.raised
    /\ Len(returned.reports) = 2
    /\ returned.reports[1].report_number = <<1, 0>>
    /\ returned.reports[2].report_number = <<2>>
    /\ returned.reports[1].report_date = returned.reports[2].report_date
    /\ given.file.csv.rows[1].z = <<2>>

----------------------------------------------------------------------------
(* C15 *)

\* every row of rows twice, one after the other
Doubled(rows) == [i \in 1..(2 * Len(rows)) |-> rows[(i + 1) \div 2]]

\* the rows at the indices of keep, in order
RECURSIVE Pick(_, _, _)
Pick(rows, keep, i) ==
    IF i > Len(rows) THEN << >>
    ELSE IF i \in keep THEN <<rows[i]>> \o Pick(rows, keep, i + 1)
    ELSE Pick(rows, keep, i + 1)

\* rows without the rows equal in every column to an earlier one
WithoutRepeats(rows) ==
    Pick(rows, {i \in 1..Len(rows) : \A j \in 1..(i - 1) : rows[j] # rows[i]}, 1)

\* two rows with the same report number, account, description and debit and
\* credit as written
SameKey(a, b) ==
    /\ strip(a.z) = strip(b.z)
    /\ a.account = b.account
    /\ a.description = b.description
    /\ a.debit = b.debit
    /\ a.credit = b.credit

\* the rows that have a report number and no earlier such row of the same key
FirstOfKey(rows) ==
    Pick(rows, {i \in 1..Len(rows) :
                  /\ rows[i].z # << >>
                  /\ \A j \in 1..(i - 1) :
                        rows[j].z = << >> \/ ~SameKey(rows[j], rows[i])}, 1)

TabParsed == returned.kind = "RestomaxParser.parse" /\ ~returned.raised

\* the rows the parser read
RowsRead == read_file(given.file).rows

\* C15: parsing an export gives the same reports as parsing it with every
\* row doubled (row by row, or the whole export twice) and as parsing it
\* without its exact repeats; the rows that count are those with no earlier
\* row of the same (report number, account, description, debit, credit).
C15_Deduplication ==
    TabParsed =>
        /\ RestomaxParser_parse(Doubled(RowsRead), returned.today) = returned.reports
        /\ RestomaxParser_parse(RowsRead \o RowsRead, returned.today) = returned.reports
        /\ RestomaxParser_parse(WithoutRepeats(RowsRead), returned.today) = returned.reports
        /\ kept_rows(RowsRead, 1, {}) = FirstOfKey(RowsRead)
        /\ RestomaxParser_parse(FirstOfKey(RowsRead), returned.today) = returned.reports

\* an export with a sale twice, the second time under another identifier:
\* one line comes out, under the first identifier
C15_Witness ==
    /\ TabParsed
    /\ Len(RowsRead) = 2
    /\ RowsRead[1] # RowsRead[2]
    /\ SameKey(RowsRead[1], RowsRead[2])
    /\ RowsRead[1].id = "A" /\ RowsRead[2].id = "X"
    /\ Len(returned.reports) = 1
    /\ Len(returned.reports[1].lines) = 1
    /\ returned.reports[1].lines[1].source_code = "A"

----------------------------------------------------------------------------
(* C16 *)

\* (credit - debit) / 2 of a row, in thousandths
HalfCredit(row) == ((row.credit.cents - row.debit.cents) * 10) \div 2

\* a sale that is no summary row, a VAT row with an identifier that is no
\* total, a payment that is no total
IsSale(row) ==
    SubSeq(row.account, 1, 3) = <<7, 0, 0>> /\ ~HasSummaryKeyword(row.description)
IsVat(row) ==
    SubSeq(row.account, 1, 3) = <<4, 5, 1>> /\ ~HasTotal(row.description) /\ row.id # ""
IsPayment(row) ==
    SubSeq(row.account, 1, 3) = <<5, 8, 0>> /\ ~IsPaymentTotal(row.description)

\* the rows of report number that count (C15) and satisfy Test, in order
RowsOf(number, Test(_)) ==
    LET rows == FirstOfKey(RowsRead)
    IN Pick(rows, {i \in 1..Len(rows) : strip(rows[i].z) = number /\ Test(rows[i])}, 1)

SaleKept(row) == IsSale(row) /\ HalfCredit(row) > 0
VatKept(row) == IsVat(row) /\ HalfCredit(row) # 0
PaymentKept(row) == IsPayment(row) /\ 0 - HalfCredit(row) > 0

\* the hundredth nearest to an amount in thousandths, the even one of two
NearestHundredth(mills) ==
    CHOOSE q \in {mills - (mills % 10), mills - (mills % 10) + 10} :
        \A o \in {mills - (mills % 10), mills - (mills % 10) + 10} \ {q} :
            \/ Abs(q - mills) < Abs(o - mills)
            \/ Abs(q - mills) = Abs(o - mills) /\ (q \div 10) % 2 = 0

Unrounded(mills) == mills

\* every report returned has exactly one line per kept sale, of net amount
\* Amount(half the credit balance), one payment per kept payment row, of
\* amount Amount(half the debit balance), and in vat_by_rate, per rate, the
\* sum of half the credit balances of the kept VAT rows; no other row counts
HalvingWith(Amount(_)) ==
    \A k \in 1..Len(returned.reports) :
        LET r == returned.reports[k]
            sales == RowsOf(r.report_number, SaleKept)
            vat == RowsOf(r.report_number, VatKept)
            payments == RowsOf(r.report_number, PaymentKept)
        IN /\ Len(r.lines) = Len(sales)
           /\ \A i \in 1..Len(sales) :
                 r.lines[i].net_amount = Amount(HalfCredit(sales[i]))
           /\ Len(r.payments) = Len(payments)
           /\ \A i \in 1..Len(payments) :
                 r.payments[i].amount = Amount(0 - HalfCredit(payments[i]))
           /\ DOMAIN r.vat_by_rate = {vat[i].tva : i \in 1..Len(vat)}
           /\ \A rate \in DOMAIN r.vat_by_rate :
                 r.vat_by_rate[rate] =
                    SumSeq([i \in 1..Len(vat) |->
                               IF vat[i].tva = rate THEN HalfCredit(vat[i]) ELSE 0],
                           Len(vat))

\* C16 (as stated): a sale that is no summary row gives a line of net amount
\* (credit - debit) / 2 when that is positive, a payment row a payment of
\* (debit - credit) / 2 when that is positive, a VAT row with identifier adds
\* (credit - debit) / 2 to vat_by_rate[rate] when that is not zero, and no
\* other row gives anything.
C16_HalvingExact == TabParsed => HalvingWith(Unrounded)

\* C16 (amended): as above, but the net amount of a line and the amount of a
\* payment are the halved value rounded to hundredths, half to even (0.075
\* gives 0.08, 0.005 gives a line of 0.00); the VAT sums are not rounded.
C16_HalvingRounded == TabParsed => HalvingWith(NearestHundredth)

\* the example: a sale of credit 20.00 and takings of debit 11.00 give a
\* line of 10.00 and a payment of 5.50
C16_Witness ==
    /\ TabParsed
    /\ Len(RowsRead) = 2
    /\ RowsRead[1].credit = Decimal(2000, 2) /\ RowsRead[1].debit = Zero
    /\ RowsRead[2].debit = Decimal(1100, 2) /\ RowsRead[2].credit = Zero
    /\ Len(returned.reports) = 1
    /\ Len(returned.reports[1].lines) = 1
    /\ returned.reports[1].lines[1].net_amount = 10000
    /\ Len(returned.reports[1].payments) = 1
    /\ returned.reports[1].payments[1].amount = 5500
    /\ total_net(returned.reports[1]) = 10000

----------------------------------------------------------------------------
(* C17 *)

\* the sum of a sequence of numbers
RECURSIVE Total(_)
Total(s) == IF s = << >> THEN 0 ELSE Head(s) + Total(Tail(s))

\* the sum of the values of a mapping with numbers as keys
RECURSIVE TotalOfValues(_)
TotalOfValues(f) ==
    IF DOMAIN f = {} THEN 0
    ELSE LET top == CHOOSE k \in DOMAIN f : \A o \in DOMAIN f : o <= k
         IN f[top] + TotalOfValues([k \in DOMAIN f \ {top} |-> f[k]])

\* C17: whenever the totals of a report are read, whatever was appended to
\* it before: total_net is the sum of the lines' net amounts; total_tax the
\* sum of the values of vat_by_rate when it has entries, else the sum of the
\* lines' tax amounts; total_gross is total_net + total_tax when vat_by_rate
\* has entries, else the sum of the lines' gross amounts; total_payments is
\* the sum of the payments' amounts.
C17_DerivedTotals ==
    [][(given.kind = "POSReport" /\ given' = given /\ returned' # returned) =>
          LET r == given.report
              nets == [i \in 1..Len(r.lines) |-> r.lines[i].net_amount]
              taxes == [i \in 1..Len(r.lines) |-> r.lines[i].tax_amount]
              grosses == [i \in 1..Len(r.lines) |-> r.lines[i].gross_amount]
              paid == [i \in 1..Len(r.payments) |-> r.payments[i].amount]
              present == r.vat_by_rate # << >>
          IN /\ returned'.total_net = Total(nets)
             /\ returned'.total_tax =
                   IF present THEN TotalOfValues(r.vat_by_rate) ELSE Total(taxes)
             /\ returned'.total_gross =
                   IF present THEN Total(nets) + TotalOfValues(r.vat_by_rate)
                   ELSE Total(grosses)
             /\ returned'.total_payments = Total(paid)]_vars

\* totals read of a report with two lines that carry tax and a VAT entry
\* added after them: the tax is the VAT entry's, the gross is net + VAT and
\* not the lines' gross
C17_Witness ==
    /\ given.kind = "POSReport"
    /\ returned.kind = "totals"
    /\ Len(given.report.lines) = 2
    /\ given.report.lines[1].tax_amount > 0
    /\ DOMAIN given.report.vat_by_rate = {10}
    /\ returned.total_tax = 200
    /\ returned.total_net = total_net(given.report)
    /\ returned.total_gross = returned.total_net + 200
    /\ returned.total_gross # given.report.lines[1].gross_amount + given.report.lines[2].gross_amount
    /\ returned.total_payments = 1200

----------------------------------------------------------------------------
(* C18 *)

\* C18: the reports either parser returns for one file have pairwise
\* distinct report numbers.
C18_DistinctReportNumbers ==
    ParseReturned =>
        \A i \in 1..Len(returned.reports) : \A j \in 1..Len(returned.reports) :
            returned.reports[i].report_number = returned.reports[j].report_number
                => i = j

----------------------------------------------------------------------------
(* C19 *)

\* a file one of the two readers reads (with or without data rows)
Readable(file) == file.csv.ok \/ file.xlsx.ok

\* C19: parse raises only for a file no reader reads; for a readable file
\* without data rows (a header alone), as for a PDF text without header, it
\* returns the empty sequence.
C19_RaisesOnlyForUnreadable ==
    /\ returned.kind = "RestomaxParser.parse" =>
          /\ returned.raised <=> ~Readable(given.file)
          /\ (Readable(given.file) /\ given.file.csv.rows = << >>
                /\ given.file.xlsx.rows = << >>) =>
                (~returned.raised /\ returned.reports = << >>)
    /\ returned.kind = "RestomaxPDFParser.parse" =>
          /\ ~returned.raised
          /\ given.text = << >> => returned.reports = << >>

----------------------------------------------------------------------------
(* C20 *)

\* each total of document d is within 1.00 of the report's
WithinTolerance(d, r) ==
    /\ Abs(d.net_total - total_net(r)) <= 100
    /\ Abs(d.total_taxes_and_charges - total_tax(r)) <= 100
    /\ Abs(d.grand_total - total_gross(r)) <= 100
    /\ Abs(d.paid - total_payments(r)) <= 100

\* C20: whenever an attempt sets a row to Created, the row links to a
\* document in the store whose net, tax, grand and payment totals are each
\* within 1.00 of the totals of the attempt's report, also when the document
\* was found finalized and reused.
C20_CreatedMeansChecked ==
    [][(ReportStep /\ StepRowAfter.status = "Created") =>
          \E d \in invoices' :
              /\ d.name = StepRowAfter.sales_invoice
              /\ d.docstatus # 2
              /\ WithinTolerance(d, StepReport)]_vars

----------------------------------------------------------------------------
(* C21 *)

\* the step's report has a line, passes the tax check, all its codes resolve
\* and no finalized document stands in for it
StepBuilds ==
    /\ Len(StepReport.lines) > 0
    /\ StepReachesBuild
    /\ ~StepReuses
    /\ FirstUnmappedLine(StepConnector, StepReport.lines, 1) = 0
    /\ FirstUnmappedPayment(StepConnector, StepReport.payments, 1) = 0

\* C21: a report with at least one line that passes the tax check and whose
\* codes all resolve gives, once inserted, a document whose tax rows sum to
\* the report's total_tax (with or without vat_by_rate, with or without a
\* tax account on the connector), which passes the report-vs-document check:
\* the row ends Created.
C21_BuiltDocumentMatchesReport ==
    [][(ReportStep /\ StepBuilds /\ last'.inserted # 0) =>
          /\ StepRowAfter.status = "Created"
          /\ \E d \in invoices' :
                /\ d.name = last'.inserted
                /\ d.total_taxes_and_charges = total_tax(StepReport)]_vars

----------------------------------------------------------------------------
(* C22 *)

\* C22: a row that is Created stays Created through every later step of
\* on_submit's loop and every reprocess_failed, whatever the later reports
\* of its batch are.
C22_CreatedIsAbsorbing ==
    [][\A b \in Batches : \A i \in 1..Len(batch[b].imported_reports) :
          batch[b].imported_reports[i].status = "Created" =>
             /\ i <= Len(batch'[b].imported_reports)
             /\ batch'[b].imported_reports[i].status = "Created"]_vars

----------------------------------------------------------------------------
(* C23 *)

\* C23: in every reachable state, every row that is Created links to a
\* document the store holds.
C23_NoDanglingLinks ==
    \A b \in Batches : \A i \in 1..Len(batch[b].imported_reports) :
        batch[b].imported_reports[i].status = "Created" =>
            batch[b].imported_reports[i].sales_invoice \in DocNames(invoices)

----------------------------------------------------------------------------
(* C24 *)

\* a draft of the step's key exists
StepFindsDraft ==
    \E d \in Keyed(invoices, StepReport.report_number, StepCompany) :
        d.docstatus = 0

\* C24: when an attempt that reaches _create_sales_invoice finds a draft of
\* its (report number, company) and the row ends in Error, a non-cancelled
\* document of that key exists afterwards and the store holds no fewer
\* documents than before.
C24_DraftReplacedOrKept ==
    [][(ReportStep /\ StepReachesBuild /\ Len(StepReport.lines) > 0
           /\ StepFindsDraft /\ ~StepReuses /\ StepRowAfter.status = "Error") =>
          /\ Keyed(invoices', StepReport.report_number, StepCompany) # {}
          /\ Cardinality(invoices') >= Cardinality(invoices)]_vars

----------------------------------------------------------------------------
(* C25 *)

\* C25: every report the tabular parser returns has lines of tax_amount 0,
\* and _validate_tax_amounts neither throws nor warns for it, with or
\* without VAT rows in the export.
C25_TabularSkipsTaxCheck ==
    returned.kind = "validate_tax_amounts of parsed" =>
        \A i \in 1..Len(returned.reports) :
            /\ \A j \in 1..Len(returned.reports[i].lines) :
                  returned.reports[i].lines[j].tax_amount = 0
            /\ ~returned.raised[i]
            /\ returned.warnings[i] = {}

----------------------------------------------------------------------------
(* C26 *)

\* C26: for every batch of rows in statuses Created, Skipped, Error and
\* Pending, the status on_submit sets at its end is the status
\* reprocess_failed sets at its end.
C26_SameStatusRule ==
    returned.kind = "import_status" =>
        returned.on_submit = returned.reprocess_failed

----------------------------------------------------------------------------
(* C27 *)

\* the store without the drafts of the step's key
WithoutDrafts ==
    invoices \ {d \in Keyed(invoices, StepReport.report_number, StepCompany) :
                   d.docstatus = 0}

\* the documents the step has put into the store
Inserted == invoices' \ invoices

\* C27: in an attempt for a report, (1) a failed tax check leaves the store
\* as it is; else (2) a finalized document of the key is returned with the
\* store as it is; else a draft of the key is deleted whatever follows, and
\* (3) the first line that does not resolve ends the attempt with its code
\* and nothing inserted, even when a payment does not resolve either; else
\* (4) the first payment that does not resolve does; else (5) a failed insert
\* does; else (6) the document is in the store as a draft when the
\* report-vs-document check fails; else (7) the document is finalized unless
\* the connector asks for drafts, and the row is Created.
C27_AttemptOrder ==
    [][(ReportStep /\ (pc = "reprocess_failed" \/ Len(StepReport.lines) > 0)) =>
          LET r == StepReport
              c == StepConnector
              li == FirstUnmappedLine(c, r.lines, 1)
              pi == FirstUnmappedPayment(c, r.payments, 1)
              row == StepRowAfter
          IN IF validate_tax_amounts(r) # 0
             THEN /\ invoices' = invoices
                  /\ row.status = "Error"
                  /\ row.error_message.kind = "Tax discrepancy"
             ELSE IF StepReuses
             THEN invoices' = invoices /\ row.status = "Created"
             ELSE IF li # 0
             THEN /\ invoices' = WithoutDrafts
                  /\ row.status = "Error"
                  /\ row.error_message =
                        Msg("No item mapping found", r.lines[li].source_code, {})
             ELSE IF pi # 0
             THEN /\ invoices' = WithoutDrafts
                  /\ row.status = "Error"
                  /\ row.error_message =
                        Msg("No payment mapping found", r.payments[pi].source_code, {})
             ELSE IF row.error_message.kind = "insert failed"
             THEN invoices' = WithoutDrafts /\ row.status = "Error"
             ELSE /\ Cardinality(Inserted) = 1
                  /\ invoices' = WithoutDrafts \cup Inserted
                  /\ \A d \in Inserted :
                        /\ d \in Keyed(invoices', r.report_number, StepCompany)
                        /\ IF CheckFails(r, c)
                           THEN /\ d.docstatus = 0
                                /\ row.status = "Error"
                                /\ row.error_message.kind = CheckMsgKind
                           ELSE /\ d.docstatus = IF c.create_draft_invoices THEN 0 ELSE 1
                                /\ row.status = "Created"
                                /\ row.sales_invoice = d.name]_vars

\* an attempt for a report of which neither the line nor the payment
\* resolves found a draft of its key, deleted it and stopped at the line
C27_Witness ==
    /\ last.raised
    /\ last.existing = "draft"
    /\ last.deleted # 0
    /\ last.deleted \notin DocNames(invoices)
    /\ last.inserted = 0
    /\ LastRow.status = "Error"
    /\ LastRow.error_message = Msg("No item mapping found", "X", {})
    /\ \E reports \in {parse_file(batch[last.batch])} :
       \E k \in 1..Len(reports) :
          /\ reports[k].report_number = last.report_number
          /\ FirstUnmappedPayment(Connector(batch[last.batch].connector),
                                  reports[k].payments, 1) # 0

====
